---- MODULE Spec2Model ----
(***************************************************************************)
(* Data access and caching layer of the bookmark navigation site:          *)
(*   - CacheManager / MemoryCache / StorageCache  (utils/cache-manager.js) *)
(*   - KVAdapter                                  (data/kv-adapter.js)     *)
(*   - DataManager                                (data/data-manager.js)   *)
(* JavaScript arrays and objects are references: the model keeps a heap of *)
(* objects, and cache entries, return values and the imported static       *)
(* collections are references into it.  The remote store holds serialized  *)
(* values (JSON text), never references.                                   *)
(***************************************************************************)
EXTENDS Integers, Sequences, FiniteSets, TLC

VARIABLES
  now,         \* Date.now()
  cm,          \* the CacheManager instance (config, in-process tier, durable tier)
  clast,       \* the last cache call and what it returned
  cwritten,    \* per key: the last set(k, v, ttl) not yet followed by set/delete of k
  cused,       \* keys of the in-process tier, least recently accessed first
  heap,        \* object identity -> contents (arrays, metadata objects, version records)
  kv,          \* the remote key-value store: key -> stored value or absent
  kvAvailable, \* KVAdapter.isAvailable
  dataSource,  \* DataManager.dataSource
  isInitialized, \* DataManager.isInitialized
  bundle,      \* the bundled dataset as shipped (navLinks.js)
  klast,       \* the last settled KVAdapter call and its outcome
  kbatch,      \* the batchGet / batchSet in flight: its per-key promises
  mstatus,     \* MigrationTool.status
  mflight,     \* the migrateToKV calls between their first await and their return
  mlast,       \* the MigrationTool method that ran last
  mprogress,   \* MigrationTool.progress
  merrors,     \* MigrationTool.errors
  mruns,       \* where each migrateToKV call in flight is waiting
  activeRequests,   \* RequestThrottler.activeRequests
  lastRequestTimes, \* RequestThrottler.lastRequestTimes
  tcall,       \* the last ApiClient.request call and how it went
  fetches,     \* per request key: the fetch calls not yet settled, and when the last began
  other,       \* another process (isolate) writing the same store
  own,         \* this process's last addSite / deleteSite and the collection it saved
  sput         \* the sites collection passed to the put that completed last

vars == <<now, cm, clast, cwritten, cused, heap, kv, kvAvailable, dataSource, isInitialized, bundle,
          klast, kbatch, mstatus, mflight, mlast,
          mprogress, merrors, mruns, activeRequests, lastRequestTimes, tcall,
          fetches, other, own, sput>>
cacheVars == <<cm, clast, cwritten, cused>>
dmVars == <<heap, kv, kvAvailable, dataSource, isInitialized, bundle>>
adVars == <<klast, kbatch>>
migVars == <<mstatus, mflight, mlast, mprogress, merrors, mruns>>
thVars == <<activeRequests, lastRequestTimes, tcall, fetches>>
shVars == <<other, own, sput>>

(***************************************************************************)
(* Optional values: <<>> is absent (null / undefined / no map entry),      *)
(* <<v>> is present.                                                       *)
(***************************************************************************)
None == <<>>
Some(v) == <<v>>
IsSome(o) == o # <<>>
Get(o) == o[1]

Null == "null"

\* no KVAdapter call made yet, no batch in flight
NoCall == [op |-> "none"]
NoBatch == [op |-> "none"]
AdapterIdle == klast = NoCall /\ kbatch = NoBatch

\* new MigrationTool(), no migrateToKV running
MigrationIdle ==
  /\ mstatus = "not_started"
  /\ mflight = 0
  /\ mlast = "none"
  /\ mprogress = 0
  /\ merrors = <<>>
  /\ mruns = <<>>

NoRequest == [key |-> "none"]
RequestKeys == {"GET_/api/a", "POST_/api/a"}
ThrottlerIdle ==
  /\ activeRequests = {}
  /\ lastRequestTimes = <<>>
  /\ tcall = NoRequest
  /\ fetches = [k \in RequestKeys |-> [pending |-> 0, started |-> None]]

OtherIdle ==
  /\ other = [pc |-> "idle"]
  /\ own = [op |-> "none"]
  /\ sput = <<>>

\* const x = v; ...f(x): v is evaluated once
Bind(v, f(_)) == CHOOSE y \in {f(x) : x \in {v}} : TRUE

(***************************************************************************)
(* Bounds of the cache model.                                              *)
(***************************************************************************)
MaxNow == 3          \* the cache clock stops here
MaxSkew == 1         \* clock advance between two Date.now() reads of one call
MaxTTL == 1          \* ttl arguments are 1..MaxTTL, or omitted (config.defaultTTL)
CfgDefaultTTL == 2   \* config.defaultTTL of the instance under test
CfgMaxSize == 2      \* config.maxSize of the instance under test

AnyMaxSize == 1      \* config.maxSize of the instance run under every strategy

CacheKeys == {"k1", "k2", "k3"}
AnyKeys == {"k2", "k3"}
\* 'session' is 'local' over sessionStorage: the same class and the same calls
Strategies == {"memory", "local", "hybrid"}
DurableKeys == {"k1"}
\* the values and ttl arguments a client passes: the first key takes them all,
\* the other keys one value and one ttl
CacheValues(k) == IF k = "k1" THEN {"v1", "v2"} ELSE {"v1"}

(***************************************************************************)
(* MemoryCache: cache is the entry Map, accessTimes the access-time Map    *)
(* (kept as a sequence: a JavaScript Map iterates in insertion order).     *)
(***************************************************************************)
MemoryCacheNew(keys) ==
  [cache |-> [k \in keys |-> None], accessTimes |-> <<>>]

AccessIndex(at, key) ==
  IF \E i \in 1..Len(at) : at[i].key = key
  THEN CHOOSE i \in 1..Len(at) : at[i].key = key
  ELSE 0

\* Map.set: an existing key keeps its position, a new key goes last
AccessPut(at, key, t) ==
  LET i == AccessIndex(at, key) IN
  IF i = 0 THEN Append(at, [key |-> key, at |-> t])
  ELSE [at EXCEPT ![i] = [key |-> key, at |-> t]]

AccessRemove(at, key) ==
  LET i == AccessIndex(at, key) IN
  IF i = 0 THEN at
  ELSE [j \in 1..(Len(at) - 1) |-> IF j < i THEN at[j] ELSE at[j + 1]]

MemoryCacheSet(m, key, data, ttl, t) ==
  [cache |-> [m.cache EXCEPT ![key] =
                Some([data |-> data, timestamp |-> t, ttl |-> ttl, key |-> key])],
   accessTimes |-> AccessPut(m.accessTimes, key, t)]

MemoryCacheDelete(m, key) ==
  [cache |-> [m.cache EXCEPT ![key] = None],
   accessTimes |-> AccessRemove(m.accessTimes, key)]

ExpiredAtTTL(entry, t) == t - entry.timestamp >= entry.ttl

Expired(entry, t) == t - entry.timestamp > entry.ttl

\* returns the new tier state and the value (Null when absent or expired)
MemoryCacheGet(m, key, t) ==
  IF ~IsSome(m.cache[key]) THEN [m |-> m, data |-> Null]
  ELSE IF Expired(Get(m.cache[key]), t)
       THEN [m |-> MemoryCacheDelete(m, key), data |-> Null]
       ELSE [m |-> [m EXCEPT !.accessTimes = AccessPut(m.accessTimes, key, t)],
             data |-> Get(m.cache[key]).data]

MemoryCacheClear(m) ==
  [cache |-> [k \in DOMAIN m.cache |-> None], accessTimes |-> <<>>]

MemoryCacheSize(m) == Cardinality({k \in DOMAIN m.cache : IsSome(m.cache[k])})

MemoryCacheCleanup(m, t) ==
  LET dead == {k \in DOMAIN m.cache : IsSome(m.cache[k]) /\ Expired(Get(m.cache[k]), t)} IN
  [cache |-> [k \in DOMAIN m.cache |-> IF k \in dead THEN None ELSE m.cache[k]],
   accessTimes |-> SelectSeq(m.accessTimes, LAMBDA e : e.key \notin dead)]

\* Array.prototype.sort is stable: the first index holding the least access time
OldestIndex(at) ==
  CHOOSE i \in 1..Len(at) :
    /\ \A j \in 1..Len(at) : at[i].at <= at[j].at
    /\ \A j \in 1..(i - 1) : at[j].at > at[i].at

RECURSIVE EvictN(_, _)
EvictN(m, n) ==
  IF n <= 0 \/ m.accessTimes = <<>> THEN m
  ELSE EvictN(MemoryCacheDelete(m, m.accessTimes[OldestIndex(m.accessTimes)].key), n - 1)

MemoryCacheEvictLRU(m, maxSize) ==
  IF MemoryCacheSize(m) <= maxSize THEN m
  ELSE EvictN(m, MemoryCacheSize(m) - maxSize)

(***************************************************************************)
(* StorageCache over localStorage / sessionStorage: entries are JSON text  *)
(* under the prefixed key.  io names the storage calls that throw during   *)
(* the call: [set, get, remove] for setItem, getItem, removeItem.  Each    *)
(* ...Body operator is the code inside the method's try block and reports  *)
(* a raised error in err; the method itself is the body under its catch.   *)
(***************************************************************************)
NoIO == [set |-> FALSE, get |-> FALSE, remove |-> FALSE]
IOFaults == [set : BOOLEAN, get : BOOLEAN, remove : BOOLEAN]

\* an item under the cache prefix that JSON.parse rejects
Corrupt == [text |-> "not json"]
IsEntry(x) == "timestamp" \in DOMAIN x

\* catch (error) { console.warn(...) }
Caught(r) == [r EXCEPT !.err = FALSE]
\* catch (error) { console.warn(...); return null; }
CaughtNull(r) == IF r.err THEN [r EXCEPT !.err = FALSE, !.data = Null] ELSE r

StorageCacheNew(keys) == [k \in keys |-> None]

StorageCacheSetBody(s, key, data, ttl, t, io) ==
  IF io.set THEN [s |-> s, err |-> TRUE]
  ELSE [s |-> [s EXCEPT ![key] =
                 Some([data |-> data, timestamp |-> t, ttl |-> ttl, key |-> key])],
        err |-> FALSE]

StorageCacheSet(s, key, data, ttl, t, io) ==
  Caught(StorageCacheSetBody(s, key, data, ttl, t, io))

StorageCacheDeleteBody(s, key, io) ==
  IF io.remove THEN [s |-> s, err |-> TRUE]
  ELSE [s |-> [s EXCEPT ![key] = None], err |-> FALSE]

StorageCacheDelete(s, key, io) == Caught(StorageCacheDeleteBody(s, key, io))

StorageCacheGetBody(s, key, t, io) ==
  IF io.get THEN [s |-> s, data |-> Null, err |-> TRUE]
  ELSE IF ~IsSome(s[key]) THEN [s |-> s, data |-> Null, err |-> FALSE]
  ELSE IF ~IsEntry(Get(s[key])) THEN [s |-> s, data |-> Null, err |-> TRUE]
  ELSE IF Expired(Get(s[key]), t)
       THEN [s |-> StorageCacheDelete(s, key, io).s, data |-> Null, err |-> FALSE]
       ELSE [s |-> s, data |-> Get(s[key]).data, err |-> FALSE]

StorageCacheGetUncaught(s, key, t, io) == StorageCacheGetBody(s, key, t, io)

StorageCacheGet(s, key, t, io) == CaughtNull(StorageCacheGetBody(s, key, t, io))

\* number of items the storage holds under the cache prefix
StorageCacheSize(s) == Cardinality({k \in DOMAIN s : IsSome(s[k])})

\* keys.forEach(removeItem): the first removeItem that throws ends the loop
StorageCacheClearBody(s, io) ==
  IF io.remove /\ StorageCacheSize(s) > 0 THEN [s |-> s, err |-> TRUE]
  ELSE [s |-> [k \in DOMAIN s |-> None], err |-> FALSE]

StorageCacheClear(s, io) == Caught(StorageCacheClearBody(s, io))

\* the items cleanup() removes: the expired ones and those that do not parse
Stale(s, t) ==
  {k \in DOMAIN s : IsSome(s[k]) /\ (IsEntry(Get(s[k])) => Expired(Get(s[k]), t))}

\* a getItem that throws, or a removeItem that throws (in the inner try and
\* again in its catch), leaves the loop through the outer catch
StorageCacheCleanupBody(s, t, io) ==
  IF io.get /\ StorageCacheSize(s) > 0 THEN [s |-> s, err |-> TRUE]
  ELSE IF io.remove /\ Stale(s, t) # {} THEN [s |-> s, err |-> TRUE]
  ELSE [s |-> [k \in DOMAIN s |-> IF k \in Stale(s, t) THEN None ELSE s[k]],
        err |-> FALSE]

StorageCacheCleanup(s, t, io) == Caught(StorageCacheCleanupBody(s, t, io))

(***************************************************************************)
(* CacheManager.  Every method returns the instance state c and err, TRUE  *)
(* when the call raised an error to its caller; get also returns data.     *)
(***************************************************************************)
CacheManagerNew(strategy, maxSize, defaultTTL, keys) ==
  [strategy |-> strategy, maxSize |-> maxSize, defaultTTL |-> defaultTTL,
   memory |-> MemoryCacheNew(keys), storage |-> StorageCacheNew(keys)]

\* t: Date.now() as read by the first tier written, t2 >= t: as read by the second
CacheManagerSet(c, key, data, ttl, t, t2, io) ==
  IF c.strategy = "hybrid"
  THEN LET ss == StorageCacheSet(c.storage, key, data, ttl, t2, io) IN
       [c |-> [c EXCEPT !.memory = MemoryCacheSet(c.memory, key, data, ttl, t),
                        !.storage = ss.s],
        err |-> ss.err]
  ELSE IF c.strategy = "memory"
  THEN [c |-> [c EXCEPT !.memory =
                 LET m == MemoryCacheSet(c.memory, key, data, ttl, t) IN
                 IF MemoryCacheSize(m) > c.maxSize
                 THEN MemoryCacheEvictLRU(m, c.maxSize) ELSE m],
        err |-> FALSE]
  ELSE LET ss == StorageCacheSet(c.storage, key, data, ttl, t, io) IN
       [c |-> [c EXCEPT !.storage = ss.s], err |-> ss.err]

CacheManagerGet(c, key, t, io) ==
  IF c.strategy = "hybrid"
  THEN LET mg == MemoryCacheGet(c.memory, key, t) IN
       IF mg.data # Null
       THEN [c |-> [c EXCEPT !.memory = mg.m], data |-> mg.data, err |-> FALSE]
       ELSE LET sg == StorageCacheGet(c.storage, key, t, io) IN
            IF sg.err THEN [c |-> [c EXCEPT !.memory = mg.m], data |-> Null, err |-> TRUE]
            ELSE IF sg.data # Null
            THEN [c |-> [c EXCEPT !.memory = MemoryCacheSet(mg.m, key, sg.data, c.defaultTTL, t),
                                  !.storage = sg.s],
                  data |-> sg.data, err |-> FALSE]
            ELSE [c |-> [c EXCEPT !.memory = mg.m, !.storage = sg.s],
                  data |-> Null, err |-> FALSE]
  ELSE IF c.strategy = "memory"
  THEN LET mg == MemoryCacheGet(c.memory, key, t) IN
       [c |-> [c EXCEPT !.memory = mg.m], data |-> mg.data, err |-> FALSE]
  ELSE LET sg == StorageCacheGet(c.storage, key, t, io) IN
       [c |-> [c EXCEPT !.storage = sg.s], data |-> sg.data, err |-> sg.err]

CacheManagerDelete(c, key, io) ==
  IF c.strategy = "hybrid"
  THEN LET sd == StorageCacheDelete(c.storage, key, io) IN
       [c |-> [c EXCEPT !.memory = MemoryCacheDelete(c.memory, key), !.storage = sd.s],
        err |-> sd.err]
  ELSE IF c.strategy = "memory"
  THEN [c |-> [c EXCEPT !.memory = MemoryCacheDelete(c.memory, key)], err |-> FALSE]
  ELSE LET sd == StorageCacheDelete(c.storage, key, io) IN
       [c |-> [c EXCEPT !.storage = sd.s], err |-> sd.err]

CacheManagerClear(c, io) ==
  IF c.strategy = "hybrid"
  THEN LET sc == StorageCacheClear(c.storage, io) IN
       [c |-> [c EXCEPT !.memory = MemoryCacheClear(c.memory), !.storage = sc.s],
        err |-> sc.err]
  ELSE IF c.strategy = "memory"
  THEN [c |-> [c EXCEPT !.memory = MemoryCacheClear(c.memory)], err |-> FALSE]
  ELSE LET sc == StorageCacheClear(c.storage, io) IN
       [c |-> [c EXCEPT !.storage = sc.s], err |-> sc.err]

CacheManagerCleanup(c, t, io) ==
  IF c.strategy = "hybrid"
  THEN LET sc == StorageCacheCleanup(c.storage, t, io) IN
       [c |-> [c EXCEPT !.memory = MemoryCacheCleanup(c.memory, t), !.storage = sc.s],
        err |-> sc.err]
  ELSE IF c.strategy = "memory"
  THEN [c |-> [c EXCEPT !.memory = MemoryCacheCleanup(c.memory, t)], err |-> FALSE]
  ELSE LET sc == StorageCacheCleanup(c.storage, t, io) IN
       [c |-> [c EXCEPT !.storage = sc.s], err |-> sc.err]

(***************************************************************************)
(* Cache calls, as issued by a client of one CacheManager instance.        *)
(***************************************************************************)
KeysOf(c) == DOMAIN c.storage

TTLArgs(c, k) == IF k = "k1" THEN (1..MaxTTL) \cup {c.defaultTTL} ELSE {1}

\* the storage calls that may throw during a call that makes the calls in fields
IOFor(c, fields) ==
  IF c.strategy = "memory" THEN {NoIO}
  ELSE {io \in IOFaults : \A f \in {"set", "get", "remove"} \ fields : ~io[f]}

\* keys held by the tiers of c1 and no longer by those of c2: the keys the set
\* that led from c1 to c2 evicted
Dropped(c1, c2) ==
  {k \in KeysOf(c1) :
     /\ IsSome(c1.memory.cache[k]) \/ IsSome(c1.storage[k])
     /\ ~IsSome(c2.memory.cache[k]) /\ ~IsSome(c2.storage[k])}

MarkLost(w, ks) ==
  [k \in DOMAIN w |->
     IF k \in ks /\ IsSome(w[k]) THEN Some([Get(w[k]) EXCEPT !.lost = TRUE]) ELSE w[k]]

\* the keys of the in-process tier of c2 in the order of their last access, after
\* a call that accessed key (a set, or a get that returned its value) or did not
Used(u, key, accessed, c2) ==
  SelectSeq(IF accessed THEN Append(SelectSeq(u, LAMBDA x : x # key), key) ELSE u,
            LAMBDA x : IsSome(c2.memory.cache[x]))

Returned(op, key, data, err) == [op |-> op, key |-> key, data |-> data, err |-> err]

CacheInitSized(strategy, keys, maxSize) ==
  /\ now = 0
  /\ cm = CacheManagerNew(strategy, maxSize, CfgDefaultTTL, keys)
  /\ clast = Returned("new", Null, Null, FALSE)
  /\ cwritten = [k \in keys |-> None]
  /\ cused = <<>>

CacheInit(strategy, keys) == CacheInitSized(strategy, keys, CfgMaxSize)

CacheSet(k, v, ttl, d, io) ==
  /\ now + d <= MaxNow
  /\ \E r \in {CacheManagerSet(cm, k, v, ttl, now, now + d, io)} :
       /\ cm' = r.c
       /\ cwritten' = [MarkLost(cwritten, Dropped(cm, r.c) \ {k}) EXCEPT ![k] =
                         Some([v |-> v, ttl |-> ttl, at |-> now + d, lost |-> FALSE])]
       /\ clast' = Returned("set", k, v, r.err)
       /\ cused' = Used(cused, k, TRUE, r.c)
  /\ now' = now + d
  /\ UNCHANGED <<dmVars, adVars, migVars, thVars, shVars>>

CacheGet(k, io) ==
  /\ \E r \in {CacheManagerGet(cm, k, now, io)} :
       /\ cm' = r.c
       /\ clast' = Returned("get", k, r.data, r.err)
       /\ cused' = Used(cused, k, r.data # Null, r.c)
  /\ UNCHANGED <<now, cwritten>>
  /\ UNCHANGED <<dmVars, adVars, migVars, thVars, shVars>>

CacheDelete(k, io) ==
  /\ \E r \in {CacheManagerDelete(cm, k, io)} :
       /\ cm' = r.c
       /\ clast' = Returned("delete", k, Null, r.err)
       /\ cused' = Used(cused, k, FALSE, r.c)
  /\ cwritten' = [cwritten EXCEPT ![k] = None]
  /\ UNCHANGED now
  /\ UNCHANGED <<dmVars, adVars, migVars, thVars, shVars>>

CacheClear(io) ==
  /\ \E r \in {CacheManagerClear(cm, io)} :
       /\ cm' = r.c
       /\ clast' = Returned("clear", Null, Null, r.err)
       /\ cused' = Used(cused, Null, FALSE, r.c)
  /\ cwritten' = [k \in KeysOf(cm) |-> None]
  /\ UNCHANGED now
  /\ UNCHANGED <<dmVars, adVars, migVars, thVars, shVars>>

\* the cleanup timer, or a manual cleanup()
CacheCleanup(io) ==
  /\ \E r \in {CacheManagerCleanup(cm, now, io)} :
       /\ cm' = r.c
       /\ clast' = Returned("cleanup", Null, Null, r.err)
       /\ cused' = Used(cused, Null, FALSE, r.c)
  /\ UNCHANGED <<now, cwritten>>
  /\ UNCHANGED <<dmVars, adVars, migVars, thVars, shVars>>

\* a new page load: a new instance with the same configuration; the in-process
\* tier starts empty, localStorage keeps its entries
CacheReload ==
  /\ cm.strategy # "memory"
  /\ cm' = [cm EXCEPT !.memory = MemoryCacheNew(KeysOf(cm))]
  /\ clast' = Returned("new", Null, Null, FALSE)
  /\ cused' = <<>>
  /\ UNCHANGED <<now, cwritten>>
  /\ UNCHANGED <<dmVars, adVars, migVars, thVars, shVars>>

\* other code of the page, or the user, leaves text that is not JSON under a
\* prefixed key
CacheCorrupt(k) ==
  /\ cm.strategy # "memory"
  /\ cm.storage[k] # Some(Corrupt)
  /\ cm' = [cm EXCEPT !.storage[k] = Some(Corrupt)]
  /\ clast' = Returned("corrupt", k, Null, FALSE)
  /\ UNCHANGED <<now, cwritten, cused>>
  /\ UNCHANGED <<dmVars, adVars, migVars, thVars, shVars>>

CacheTick ==
  /\ now < MaxNow
  /\ now' = now + 1
  /\ clast' = Returned("tick", Null, Null, FALSE)
  /\ UNCHANGED <<cm, cwritten, cused>>
  /\ UNCHANGED <<dmVars, adVars, migVars, thVars, shVars>>

CacheSetCall ==
  \E k \in KeysOf(cm), d \in 0..MaxSkew, io \in IOFor(cm, {"set"}) :
   \E v \in CacheValues(k), ttl \in TTLArgs(cm, k) :
    /\ cm.strategy = "hybrid" \/ d = 0
    /\ CacheSet(k, v, ttl, d, io)

\* a set whose Date.now() reads all give the same value
CacheSetNowCall ==
  \E k \in KeysOf(cm), io \in IOFor(cm, {"set"}) :
   \E v \in CacheValues(k), ttl \in TTLArgs(cm, k) : CacheSet(k, v, ttl, 0, io)

CacheGetCall == \E k \in KeysOf(cm), io \in IOFor(cm, {"get", "remove"}) : CacheGet(k, io)

CacheDeleteCall == \E k \in KeysOf(cm), io \in IOFor(cm, {"remove"}) : CacheDelete(k, io)

CacheClearCall == \E io \in IOFor(cm, {"remove"}) : CacheClear(io)

CacheCleanupCall == \E io \in IOFor(cm, {"get", "remove"}) : CacheCleanup(io)

CacheCorruptCall == \E k \in KeysOf(cm) : CacheCorrupt(k)

\* the calls on an instance of the in-process strategy
CacheNext ==
  \/ CacheSetCall
  \/ CacheGetCall
  \/ CacheDeleteCall
  \/ CacheClearCall
  \/ CacheCleanupCall
  \/ CacheTick

\* the calls on an instance of the hybrid strategy, and page loads
CacheHybridNext ==
  \/ CacheSetCall
  \/ CacheGetCall
  \/ CacheDeleteCall
  \/ CacheClearCall
  \/ CacheCleanupCall
  \/ CacheReload
  \/ CacheTick

\* the calls on an instance of any strategy, page loads, and foreign writes to
\* the storage
CacheAnyNext ==
  \/ CacheSetNowCall
  \/ CacheGetCall
  \/ CacheDeleteCall
  \/ CacheClearCall
  \/ CacheCleanupCall
  \/ CacheReload
  \/ CacheCorruptCall
  \/ CacheTick

(***************************************************************************)
(* Data model.  A category is [id, name], a bookmark [id, url, category].  *)
(***************************************************************************)
Cat(id, name) == [id |-> id, name |-> name]
Site(id, url, category) == [id |-> id, url |-> url, category |-> category]

\* bounds of the DataManager model
MaxLen == 2          \* no collection grows beyond this
MaxTicks == 2        \* the DataManager clock advances at most this often
MaxFaults == 1       \* store calls that fail within one DataManager call
TickMs == 350000     \* one clock advance, in ms

\* the arguments the admin calls are made with
CategoryInputs == {Cat("c1", "n1"), Cat("c2", "n1")}
SiteInputs == {Site("s1", "u1", "c1"), Site("s2", "u1", "c2")}
CategoryIds == {"c1", "c2"}
SiteIds == {"s1", "s2"}
UpdatedCategoryIds == {"c1"}
UpdatedSiteIds == {"s1"}
CategoryUpdates == {[name |-> "n2"]}
SiteUpdates == {[category |-> "c2"]}
FreshSites == {Site("s2", "u2", "c2")}   \* clashes with nothing in the bundle

\* the bundled datasets the artifact may ship with (navLinks.js)
Bundles ==
  {[categories |-> <<Cat("c1", "n1")>>, sites |-> <<Site("s1", "u1", "c1")>>]}

\* KV_KEYS
K_CATEGORIES == "bookmarks:categories"
K_SITES == "bookmarks:sites"
K_METADATA == "bookmarks:metadata"
K_VERSION == "data:version"
KVKeys == {K_CATEGORIES, K_SITES, K_METADATA, K_VERSION}

\* DATA_VERSION
VersionCurrent == "1.0.0"
VersionCompatible == {"1.0.0"}
VersionOld == "0.9.0"    \* a version record some other release wrote

KVCacheTTL == 300000     \* KVAdapter.cacheTTL
DMCacheTTL == 600000     \* DataManager.cacheTTL
DefaultTTL == 3600000    \* DEFAULT_CACHE_CONFIG.defaultTTL
DefaultMaxSize == 100    \* DEFAULT_CACHE_CONFIG.maxSize

\* KVAdapter.getCacheKey: cachePrefix 'kv_' before the store key
KVCacheKey(key) ==
  CASE key = K_CATEGORIES -> "kv_bookmarks:categories"
    [] key = K_SITES -> "kv_bookmarks:sites"
    [] key = K_METADATA -> "kv_bookmarks:metadata"
    [] key = K_VERSION -> "kv_data:version"

\* DataManager.getCacheKey: cachePrefix 'dm_' before the collection name
DMCacheKey(type) ==
  CASE type = "categories" -> "dm_categories"
    [] type = "sites" -> "dm_sites"

KVKeyOf(type) ==
  CASE type = "categories" -> K_CATEGORIES
    [] type = "sites" -> K_SITES

DMCacheKeys ==
  {"dm_categories", "dm_sites"} \cup {KVCacheKey(k) : k \in KVKeys}

(***************************************************************************)
(* The heap.  "SC" and "SS" are the arrays navLinks.js exports             *)
(* (staticCategories, staticSites); the slots hold the objects made at run *)
(* time (JSON.parse results, filter results, object literals).             *)
(***************************************************************************)
HeapSlots == <<"h1", "h2", "h3", "h4", "h5", "h6">>
SlotSet == {HeapSlots[i] : i \in 1..Len(HeapSlots)}
StaticRef(type) ==
  CASE type = "categories" -> "SC"
    [] type = "sites" -> "SS"
Refs == {"SC", "SS"} \cup SlotSet

\* the objects some cache entry still refers to
Referenced(c) ==
  {Get(c.memory.cache[k]).data : k \in {x \in DOMAIN c.memory.cache : IsSome(c.memory.cache[x])}}

\* a new object: the first slot nothing refers to
NewRef(st) ==
  HeapSlots[CHOOSE i \in 1..Len(HeapSlots) :
              /\ HeapSlots[i] \notin Referenced(st.cm)
              /\ \A j \in 1..(i - 1) : HeapSlots[j] \in Referenced(st.cm)]

\* An object nothing refers to is gone.  Which slot an object sits in is not
\* observable, only which entries share an object is: between calls the live
\* objects are moved to the first slots, in the order in which the cache keys
\* below first refer to them.
KeyOrder ==
  <<"dm_categories", "kv_bookmarks:categories", "dm_sites", "kv_bookmarks:sites",
    "kv_bookmarks:metadata", "kv_data:version">>
RefAt(c, i) ==
  IF IsSome(c.memory.cache[KeyOrder[i]]) THEN Get(c.memory.cache[KeyOrder[i]]).data ELSE Null
FirstAt(c, r) == CHOOSE i \in 1..Len(KeyOrder) :
                   RefAt(c, i) = r /\ \A j \in 1..(i - 1) : RefAt(c, j) # r
Firsts(c) == [q \in Referenced(c) \cap SlotSet |-> FirstAt(c, q)]
Moves(first) ==
  [q \in DOMAIN first |->
     HeapSlots[Cardinality({p \in DOMAIN first : first[p] <= first[q]})]]
CompactHeap(h, moved) ==
  [r \in DOMAIN h |->
     IF r \in SlotSet
     THEN IF \E q \in DOMAIN moved : moved[q] = r
          THEN h[CHOOSE q \in DOMAIN moved : moved[q] = r] ELSE <<>>
     ELSE h[r]]
CompactCache(c, moved) ==
  [c EXCEPT !.memory.cache =
     [k \in DOMAIN @ |->
        IF IsSome(@[k])
        THEN Some([Get(@[k]) EXCEPT !.data = IF @ \in DOMAIN moved THEN moved[@] ELSE @])
        ELSE None]]

\* the cache module's `cache` facade over the default cacheManager; one Date.now()
CacheSetIn(st, key, ref, ttl, t) ==
  [st EXCEPT !.cm = CacheManagerSet(st.cm, key, ref, ttl, t, t, NoIO).c]

(***************************************************************************)
(* KVAdapter                                                               *)
(***************************************************************************)
\* get(key): the adapter's cache first, then the store; a store value is parsed
\* into a new object and cached.  err is "store" when the call throws.
KVAdapterGet(st, key, t, getFails) ==
  IF ~kvAvailable THEN [st |-> st, val |-> Null, err |-> "store"]
  ELSE
    Bind(CacheManagerGet(st.cm, KVCacheKey(key), t, NoIO), LAMBDA cg :
      LET st1 == [st EXCEPT !.cm = cg.c] IN
      IF cg.data # Null THEN [st |-> st1, val |-> cg.data, err |-> "none"]
      ELSE IF getFails THEN [st |-> st1, val |-> Null, err |-> "store"]
      ELSE IF ~IsSome(st1.kv[key]) THEN [st |-> st1, val |-> Null, err |-> "none"]
      ELSE
        LET r == NewRef(st1)
            st2 == [st1 EXCEPT !.heap[r] = Get(st1.kv[key])]
        IN [st |-> CacheSetIn(st2, KVCacheKey(key), r, KVCacheTTL, t), val |-> r, err |-> "none"])

\* set(key, value) with the cache written before the put
KVAdapterSetCacheFirst(st, key, ref, t, putFails) ==
  IF ~kvAvailable THEN [st |-> st, err |-> "store"]
  ELSE IF putFails
  THEN [st |-> CacheSetIn([st EXCEPT !.puts = @ + 1], KVCacheKey(key), ref, KVCacheTTL, t),
        err |-> "store"]
  ELSE
    LET st1 == [st EXCEPT !.kv[key] = Some(st.heap[ref]), !.puts = @ + 1]
    IN [st |-> CacheSetIn(st1, KVCacheKey(key), ref, KVCacheTTL, t), err |-> "none"]

\* set(key, value): put the serialized value, then cache the object itself
\* a set that adds the records to the ones the store holds
KVAdapterSetMerging(st, key, ref, t, putFails) ==
  IF ~kvAvailable THEN [st |-> st, err |-> "store"]
  ELSE IF putFails THEN [st |-> [st EXCEPT !.puts = @ + 1], err |-> "store"]
  ELSE
    LET new == st.heap[ref]
        old == IF key \in {K_CATEGORIES, K_SITES} /\ IsSome(st.kv[key])
               THEN SelectSeq(Get(st.kv[key]),
                              LAMBDA x : \A i \in 1..Len(new) : new[i].id # x.id)
               ELSE <<>>
        st1 == [st EXCEPT !.kv[key] = Some(IF key \in {K_CATEGORIES, K_SITES}
                                           THEN old \o new ELSE new),
                          !.puts = @ + 1]
    IN [st |-> CacheSetIn(st1, KVCacheKey(key), ref, KVCacheTTL, t), err |-> "none"]

KVAdapterSet(st, key, ref, t, putFails) ==
  IF ~kvAvailable THEN [st |-> st, err |-> "store"]
  ELSE IF putFails THEN [st |-> [st EXCEPT !.puts = @ + 1], err |-> "store"]
  ELSE
    LET st1 == [st EXCEPT !.kv[key] = Some(st.heap[ref]), !.puts = @ + 1]
    IN [st |-> CacheSetIn(st1, KVCacheKey(key), ref, KVCacheTTL, t), err |-> "none"]

\* getVersion: the stored record, or the current version when absent or unreadable
KVAdapterGetVersion(st, t, getFails) ==
  Bind(KVAdapterGet(st, K_VERSION, t, getFails), LAMBDA g :
    IF g.err # "none" \/ g.val = Null
    THEN [st |-> g.st, version |-> VersionCurrent]
    ELSE [st |-> g.st, version |-> g.st.heap[g.val].version])

CheckVersionCompatibility(st, t, getFails) ==
  Bind(KVAdapterGetVersion(st, t, getFails), LAMBDA v :
    [st |-> v.st, compatible |-> v.version \in VersionCompatible])

(***************************************************************************)
(* ErrorHandler.  A thrown value is an Error (its name, and which of the   *)
(* keywords parseError looks for its message contains), an AppError, or    *)
(* something that is not an Error.                                         *)
(***************************************************************************)
ErrorWords == {"timeout", "network", "permission", "validation", "not_found", "server"}
NativeError(name, words) == [kind |-> "Error", name |-> name, words |-> words]
AppError(type, details) == [kind |-> "AppError", type |-> type, details |-> details]
NoError == [kind |-> "none"]

ParseErrorType(error) ==
  IF error.name = "AbortError" \/ "timeout" \in error.words THEN "timeout"
  ELSE IF "network" \in error.words THEN "network"
  ELSE IF "permission" \in error.words THEN "permission"
  ELSE IF "validation" \in error.words THEN "validation"
  ELSE IF "not_found" \in error.words THEN "not_found"
  ELSE IF "server" \in error.words THEN "server"
  ELSE "unknown"

ParseError(error, context) == AppError(ParseErrorType(error), context)

HandleError(error, context) ==
  IF error.kind = "AppError" THEN error
  ELSE IF error.kind = "Error" THEN ParseError(error, context)
  ELSE AppError("unknown", context)

\* handleError.network(error, { operation, key })
HandleErrorNetwork(error, operation, key) ==
  HandleError(error, [operation |-> operation, key |-> key, source |-> "network"])

\* new Error('KV 存储不可用')
Unavailable == NativeError("Error", {})

\* what a store call may throw
StoreErrors ==
  {NativeError("Error", {}), NativeError("Error", {"network"}),
   NativeError("Error", {"network", "timeout"}), [kind |-> "string"]}

\* the error a KVAdapter method rejects with when its store call threw fault
Rejection(operation, key, fault) ==
  HandleErrorNetwork(IF ~kvAvailable THEN Unavailable ELSE Get(fault), operation, key)

(***************************************************************************)
(* KVAdapter.delete and list, and get in its two parts: up to the store    *)
(* call (KVGetBegin) and from the store's answer on (KVGetEnd).            *)
(***************************************************************************)
KVAdapterDelete(st, key, t, deleteFails) ==
  IF ~kvAvailable \/ deleteFails THEN [st |-> st, err |-> "store"]
  ELSE [st |-> [st EXCEPT !.kv[key] = None,
                          !.cm = CacheManagerDelete(st.cm, KVCacheKey(key), NoIO).c],
        err |-> "none"]

KVAdapterList(st, listFails) ==
  IF ~kvAvailable \/ listFails THEN [keys |-> {}, err |-> "store"]
  ELSE [keys |-> {k \in DOMAIN st.kv : IsSome(st.kv[k])}, err |-> "none"]

KVGetBegin(st, key, t) ==
  IF ~kvAvailable THEN [st |-> st, phase |-> "thrown", val |-> Null]
  ELSE
    Bind(CacheManagerGet(st.cm, KVCacheKey(key), t, NoIO), LAMBDA cg :
      [st |-> [st EXCEPT !.cm = cg.c],
       phase |-> IF cg.data # Null THEN "hit" ELSE "pending",
       val |-> cg.data])

KVGetEnd(st, key, t, getFails) ==
  IF getFails THEN [st |-> st, val |-> Null, err |-> "store"]
  ELSE IF ~IsSome(st.kv[key]) THEN [st |-> st, val |-> Null, err |-> "none"]
  ELSE
    LET r == NewRef(st)
        st2 == [st EXCEPT !.heap[r] = Get(st.kv[key])]
    IN [st |-> CacheSetIn(st2, KVCacheKey(key), r, KVCacheTTL, t), val |-> r, err |-> "none"]

(***************************************************************************)
(* DataManager.  st is the process and store state a call works on:        *)
(* [heap, cm, kv, puts], puts counting the store puts the call issued.     *)
(* fails is the set of store calls that reject during the call; the store  *)
(* calls of updateMetadata, whose errors are swallowed, do not reject.     *)
(***************************************************************************)
FaultPoints == {"get:categories", "get:sites", "put:categories", "put:sites"}

FaultSets(points) == {F \in SUBSET points : Cardinality(F) <= MaxFaults}

GetPoint(type) == IF type = "categories" THEN "get:categories" ELSE "get:sites"
PutPoint(type) == IF type = "categories" THEN "put:categories" ELSE "put:sites"

\* getCategories / getSites: the cached collection, else the store's (the static
\* one when the store has none), cached; the static one when anything throws
\* (caught: the catch branch returned it)
GetCollection(st, type, useCache, t, fails) ==
  LET ck == DMCacheKey(type) IN
  Bind(IF useCache THEN CacheManagerGet(st.cm, ck, t, NoIO) ELSE [c |-> st.cm, data |-> Null],
       LAMBDA cg :
    LET st1 == [st EXCEPT !.cm = cg.c] IN
    IF useCache /\ cg.data # Null THEN [st |-> st1, val |-> cg.data, caught |-> FALSE]
    ELSE IF dataSource = "kv"
    THEN Bind(KVAdapterGet(st1, KVKeyOf(type), t, GetPoint(type) \in fails), LAMBDA g :
           IF g.err # "none" THEN [st |-> g.st, val |-> StaticRef(type), caught |-> TRUE]
           ELSE LET v == IF g.val = Null THEN StaticRef(type) ELSE g.val IN
                [st |-> CacheSetIn(g.st, ck, v, DMCacheTTL, t), val |-> v, caught |-> FALSE])
    ELSE [st |-> CacheSetIn(st1, ck, StaticRef(type), DMCacheTTL, t),
          val |-> StaticRef(type), caught |-> FALSE])

GetCategories(st, useCache, t, fails) == GetCollection(st, "categories", useCache, t, fails)

GetSites(st, useCache, t, fails) == GetCollection(st, "sites", useCache, t, fails)

EmptyMetadata == [categories |-> None, sites |-> None, migration |-> None]

\* updateMetadata: read-modify-write of the metadata record; errors are swallowed.
\* The record keeps the count of each collection; its lastUpdated stamps are not
\* modelled (nothing reads them).
UpdateMetadata(st, type, count, t, fails) ==
  IF dataSource # "kv" THEN st
  ELSE
    Bind(KVAdapterGet(st, K_METADATA, t, FALSE), LAMBDA g :
      IF g.err # "none" THEN g.st
      ELSE
        LET r == IF g.val = Null THEN NewRef(g.st) ELSE g.val
            old == IF g.val = Null THEN EmptyMetadata ELSE g.st.heap[r]
            st1 == [g.st EXCEPT !.heap[r] =
                      [old EXCEPT ![type] = Some([count |-> count])]]
        IN KVAdapterSet(st1, K_METADATA, r, t, FALSE).st)

\* a save that does not look at the data source before reporting success
SaveCollectionAnyMode(st, type, ref, t, fails) ==
  IF dataSource = "kv"
  THEN Bind(KVAdapterSet(st, KVKeyOf(type), ref, t, PutPoint(type) \in fails), LAMBDA s :
         IF s.err # "none" THEN [st |-> s.st, err |-> "store"]
         ELSE Bind(CacheSetIn(s.st, DMCacheKey(type), ref, DMCacheTTL, t), LAMBDA st1 :
                [st |-> UpdateMetadata(st1, type, Len(st1.heap[ref]), t, fails),
                 err |-> "none"]))
  ELSE [st |-> st, err |-> "none"]

\* saveCategories / saveSites
SaveCollection(st, type, ref, t, fails) ==
  IF dataSource = "kv"
  THEN Bind(KVAdapterSet(st, KVKeyOf(type), ref, t, PutPoint(type) \in fails), LAMBDA s :
         IF s.err # "none" THEN [st |-> s.st, err |-> "store"]
         ELSE Bind(CacheSetIn(s.st, DMCacheKey(type), ref, DMCacheTTL, t), LAMBDA st1 :
                [st |-> UpdateMetadata(st1, type, Len(st1.heap[ref]), t, fails),
                 err |-> "none"]))
  ELSE [st |-> st, err |-> "readonly"]

SaveCategories(st, ref, t, fails) == SaveCollection(st, "categories", ref, t, fails)

SaveSites(st, ref, t, fails) == SaveCollection(st, "sites", ref, t, fails)

HasId(arr, id) == \E i \in 1..Len(arr) : arr[i].id = id
HasUrl(arr, url) == \E i \in 1..Len(arr) : arr[i].url = url

\* Array.prototype.findIndex on the id; 0 when there is none
FindIndex(arr, id) ==
  IF HasId(arr, id) THEN CHOOSE i \in 1..Len(arr) :
                           arr[i].id = id /\ \A j \in 1..(i - 1) : arr[j].id # id
  ELSE 0

\* { ...record, ...updates }
Merge(rec, upd) ==
  [f \in DOMAIN rec \cup DOMAIN upd |-> IF f \in DOMAIN upd THEN upd[f] ELSE rec[f]]

Outcome(st, res, count) == [st |-> st, res |-> res, count |-> count]

ResultOf(err) == IF err = "none" THEN "ok" ELSE err

Saved(s) == Outcome(s.st, ResultOf(s.err), 0)

DMAddCategory(st, category, t, fails) ==
  Bind(GetCategories(st, TRUE, t, fails), LAMBDA g :
    LET arr == g.st.heap[g.val] IN
    IF HasId(arr, category.id) THEN Outcome(g.st, "validation", 0)
    ELSE LET st1 == [g.st EXCEPT !.heap[g.val] = Append(arr, category)]
         IN Bind(SaveCategories(st1, g.val, t, fails), Saved))

DMUpdateCategory(st, categoryId, updates, t, fails) ==
  Bind(GetCategories(st, TRUE, t, fails), LAMBDA g :
    LET arr == g.st.heap[g.val]
        index == FindIndex(arr, categoryId)
    IN
    IF index = 0 THEN Outcome(g.st, "validation", 0)
    ELSE LET st1 == [g.st EXCEPT !.heap[g.val] =
                       [arr EXCEPT ![index] = Merge(arr[index], updates)]]
         IN Bind(SaveCategories(st1, g.val, t, fails), Saved))

DMDeleteCategory(st, categoryId, t, fails) ==
  Bind(GetCategories(st, TRUE, t, fails), LAMBDA gc :
    Bind(GetSites(gc.st, TRUE, t, fails), LAMBDA gs :
      LET categories == gs.st.heap[gc.val]
          sites == gs.st.heap[gs.val]
          sitesInCategory == SelectSeq(sites, LAMBDA x : x.category = categoryId)
      IN
      IF Len(sitesInCategory) > 0 THEN Outcome(gs.st, "validation", Len(sitesInCategory))
      ELSE LET r == NewRef(gs.st)
               st1 == [gs.st EXCEPT !.heap[r] =
                         SelectSeq(categories, LAMBDA x : x.id # categoryId)]
           IN Bind(SaveCategories(st1, r, t, fails), Saved)))

\* an addSite that checks the id only
DMAddSiteAnyUrl(st, site, t, fails) ==
  Bind(GetSites(st, TRUE, t, fails), LAMBDA g :
    LET arr == g.st.heap[g.val] IN
    IF HasId(arr, site.id) THEN Outcome(g.st, "validation", 0)
    ELSE LET st1 == [g.st EXCEPT !.heap[g.val] = Append(arr, site)]
         IN Bind(SaveSites(st1, g.val, t, fails), Saved))

DMAddSite(st, site, t, fails) ==
  Bind(GetSites(st, TRUE, t, fails), LAMBDA g :
    LET arr == g.st.heap[g.val] IN
    IF HasId(arr, site.id) THEN Outcome(g.st, "validation", 0)
    ELSE IF HasUrl(arr, site.url) THEN Outcome(g.st, "validation", 0)
    ELSE LET st1 == [g.st EXCEPT !.heap[g.val] = Append(arr, site)]
         IN Bind(SaveSites(st1, g.val, t, fails), Saved))

DMUpdateSite(st, siteId, updates, t, fails) ==
  Bind(GetSites(st, TRUE, t, fails), LAMBDA g :
    LET arr == g.st.heap[g.val]
        index == FindIndex(arr, siteId)
    IN
    IF index = 0 THEN Outcome(g.st, "validation", 0)
    ELSE LET st1 == [g.st EXCEPT !.heap[g.val] =
                       [arr EXCEPT ![index] = Merge(arr[index], updates)]]
         IN Bind(SaveSites(st1, g.val, t, fails), Saved))

DMDeleteSite(st, siteId, t, fails) ==
  Bind(GetSites(st, TRUE, t, fails), LAMBDA g :
    LET sites == g.st.heap[g.val]
        filteredSites == SelectSeq(sites, LAMBDA x : x.id # siteId)
    IN
    IF Len(filteredSites) = Len(sites) THEN Outcome(g.st, "validation", 0)
    ELSE LET r == NewRef(g.st)
             st1 == [g.st EXCEPT !.heap[r] = filteredSites]
         IN Bind(SaveSites(st1, r, t, fails), Saved))

(***************************************************************************)
(* DataManager calls, one at a time, each running to completion.           *)
(***************************************************************************)
Cur == [heap |-> heap, cm |-> cm, kv |-> kv, puts |-> 0]

EmptyStore == [k \in KVKeys |-> None]

SeededStore(b, version) ==
  [k \in KVKeys |->
     CASE k = K_CATEGORIES -> Some(b.categories)
       [] k = K_SITES -> Some(b.sites)
       [] k = K_METADATA ->
            Some([categories |-> Some([count |-> Len(b.categories)]),
                  sites |-> Some([count |-> Len(b.sites)]),
                  migration |-> Some("static_to_kv")])
       [] k = K_VERSION -> Some([version |-> version])]

\* what the store may hold when the process starts: nothing (no admin data yet),
\* or the collections a migration seeded, under this or another release
Stores(b) == {EmptyStore, SeededStore(b, VersionCurrent), SeededStore(b, VersionOld)}

WithinBounds(st) ==
  /\ Len(st.heap["SC"]) <= MaxLen
  /\ Len(st.heap["SS"]) <= MaxLen
  /\ \A k \in {K_CATEGORIES, K_SITES} : IsSome(st.kv[k]) => Len(Get(st.kv[k])) <= MaxLen
  /\ \A k \in {"dm_categories", "dm_sites", KVCacheKey(K_CATEGORIES), KVCacheKey(K_SITES)} :
       IsSome(st.cm.memory.cache[k]) => Len(st.heap[Get(st.cm.memory.cache[k]).data]) <= MaxLen

\* The default instance holds at most the six keys of DMCacheKeys and its maxSize
\* is 100: evictLRU, the only reader of the access-time map, never runs, so the
\* map is left out of the state between calls.
Settled(c) == [c EXCEPT !.memory.accessTimes = <<>>]

Compacted(st) ==
  \E first \in {Firsts(st.cm)} : \E moved \in {Moves(first)} :
    /\ heap' = CompactHeap(st.heap, moved)
    /\ cm' = Settled(CompactCache(st.cm, moved))

Committed(st) ==
  /\ WithinBounds(st)
  /\ Compacted(st)
  /\ kv' = st.kv
  /\ UNCHANGED <<now, kvAvailable, dataSource, isInitialized, bundle, clast, cwritten, cused, adVars, migVars, thVars>>

Commit(st) == Committed(st) /\ UNCHANGED shVars

DMStart ==
  /\ now = 0
  /\ bundle \in Bundles
  /\ heap = [r \in Refs |->
               IF r = "SC" THEN bundle.categories
               ELSE IF r = "SS" THEN bundle.sites ELSE <<>>]
  /\ cm = CacheManagerNew("memory", DefaultMaxSize, DefaultTTL, DMCacheKeys)
  /\ kvAvailable \in BOOLEAN
  /\ kv \in (IF kvAvailable THEN Stores(bundle) ELSE {EmptyStore})
  /\ dataSource = "static"
  /\ isInitialized = FALSE
  /\ clast = Returned("new", Null, Null, FALSE)
  /\ cwritten = <<>>
  /\ cused = <<>>
  /\ AdapterIdle
  /\ MigrationIdle
  /\ ThrottlerIdle
  /\ OtherIdle

\* init(), run by the constructor and awaited by every call (ensureInitialized)
DMInit(versionFails) ==
  /\ ~isInitialized
  /\ isInitialized' = TRUE
  /\ IF kvAvailable
     THEN \E c \in {CheckVersionCompatibility(Cur, now, versionFails)} :
            /\ dataSource' = IF c.compatible THEN "kv" ELSE "static"
            /\ Compacted(c.st)
     ELSE /\ ~versionFails
          /\ dataSource' = "static"
          /\ UNCHANGED <<heap, cm>>
  /\ UNCHANGED <<now, kv, kvAvailable, bundle, clast, cwritten, cused, adVars, migVars, thVars, shVars>>

ReadCall(type, useCache, fails) ==
  /\ isInitialized
  /\ \E g \in {GetCollection(Cur, type, useCache, now, fails)} :
       Commit(g.st)

AddCategory(category, fails) ==
  /\ isInitialized
  /\ \E o \in {DMAddCategory(Cur, category, now, fails)} : Commit(o.st)

UpdateCategory(categoryId, updates, fails) ==
  /\ isInitialized
  /\ \E o \in {DMUpdateCategory(Cur, categoryId, updates, now, fails)} : Commit(o.st)

DeleteCategory(categoryId, fails) ==
  /\ isInitialized
  /\ \E o \in {DMDeleteCategory(Cur, categoryId, now, fails)} : Commit(o.st)

AddSite(site, fails) ==
  /\ isInitialized
  /\ \E o \in {DMAddSite(Cur, site, now, fails)} : Commit(o.st)

UpdateSite(siteId, updates, fails) ==
  /\ isInitialized
  /\ \E o \in {DMUpdateSite(Cur, siteId, updates, now, fails)} : Commit(o.st)

DeleteSite(siteId, fails) ==
  /\ isInitialized
  /\ \E o \in {DMDeleteSite(Cur, siteId, now, fails)} : Commit(o.st)

\* The clock advances by TickMs.  TickMs is longer than cleanupInterval, so the
\* timer of startCleanupTimer has come due meanwhile: its cleanup() runs.
DMTick ==
  /\ now < MaxTicks * TickMs
  /\ now' = now + TickMs
  /\ \E c \in {CacheManagerCleanup(cm, now + TickMs, NoIO).c} :
       Compacted([heap |-> heap, cm |-> c])
  /\ UNCHANGED <<kv, kvAvailable, dataSource, isInitialized, bundle, clast, cwritten, cused, adVars, migVars, thVars, shVars>>

CategoryFaults == FaultSets({"get:categories", "put:categories"})
SiteFaults == FaultSets({"get:sites", "put:sites"})
DeleteCategoryFaults == FaultSets({"get:categories", "get:sites", "put:categories"})

DMInitCall == \E versionFails \in BOOLEAN : DMInit(versionFails)

GetCategoriesCall ==
  \E useCache \in BOOLEAN, fails \in FaultSets({"get:categories"}) :
    ReadCall("categories", useCache, fails)

GetSitesCall ==
  \E useCache \in BOOLEAN, fails \in FaultSets({"get:sites"}) :
    ReadCall("sites", useCache, fails)

AddCategoryCall == \E c \in CategoryInputs, fails \in CategoryFaults : AddCategory(c, fails)

UpdateCategoryCall ==
  \E id \in UpdatedCategoryIds, u \in CategoryUpdates, fails \in CategoryFaults :
    UpdateCategory(id, u, fails)

DeleteCategoryCall ==
  \E id \in CategoryIds, fails \in DeleteCategoryFaults : DeleteCategory(id, fails)

AddSiteCall == \E x \in SiteInputs, fails \in SiteFaults : AddSite(x, fails)

UpdateSiteCall ==
  \E id \in UpdatedSiteIds, u \in SiteUpdates, fails \in SiteFaults : UpdateSite(id, u, fails)

DeleteSiteCall == \E id \in SiteIds, fails \in SiteFaults : DeleteSite(id, fails)

\* the calls of the collection contract: reads, add and delete
DMNext ==
  \/ DMInitCall
  \/ GetCategoriesCall
  \/ GetSitesCall
  \/ AddCategoryCall
  \/ DeleteCategoryCall
  \/ AddSiteCall
  \/ DeleteSiteCall
  \/ DMTick

Spec == DMStart /\ [][DMNext]_vars

\* the runs in which the Data Manager comes up in STATIC mode, with every call
StaticInitCall == \E versionFails \in BOOLEAN : DMInit(versionFails) /\ dataSource' = "static"

AddFreshSiteCall == \E x \in FreshSites, fails \in SiteFaults : AddSite(x, fails)

StaticNext ==
  \/ StaticInitCall
  \/ GetCategoriesCall
  \/ GetSitesCall
  \/ AddCategoryCall
  \/ UpdateCategoryCall
  \/ DeleteCategoryCall
  \/ AddSiteCall
  \/ AddFreshSiteCall
  \/ UpdateSiteCall
  \/ DeleteSiteCall
  \/ DMTick

SpecStatic == DMStart /\ [][StaticNext]_vars

(***************************************************************************)
(* Another process (isolate) of the same deployment, in KV mode, with its  *)
(* own empty caches: it runs addSite against the same store, its read and  *)
(* its put being separate steps between which this process may run.        *)
(***************************************************************************)
OtherSites == {Site("s3", "u3", "c1")}

\* the other process as it starts: the bundled arrays, nothing cached, and the
\* store as it is now
OtherState ==
  [heap |-> [r \in Refs |->
               IF r = "SC" THEN bundle.categories
               ELSE IF r = "SS" THEN bundle.sites ELSE <<>>],
   cm |-> CacheManagerNew("memory", DefaultMaxSize, DefaultTTL, DMCacheKeys),
   kv |-> kv, puts |-> 0]

\* its addSite up to the answer of its getSites()
OtherRead ==
  /\ isInitialized
  /\ dataSource = "kv"
  /\ other.pc # "read"
  /\ \E g \in {GetSites(OtherState, TRUE, now, {})} :
       other' = [pc |-> "read", local |-> g.st.heap[g.val]]
  /\ UNCHANGED <<now, cacheVars, dmVars, adVars, migVars, thVars, own, sput>>

\* its addSite from there on: the checks, the push and saveSites
OtherAddSite ==
  \E site \in OtherSites :
    /\ other.pc = "read"
    /\ Len(other.local) < MaxLen
    /\ IF HasId(other.local, site.id) \/ HasUrl(other.local, site.url)
       THEN /\ other' = [pc |-> "done", res |-> "validation", put |-> other.local]
            /\ UNCHANGED <<kv, sput>>
       ELSE \E r \in {NewRef(OtherState)} :
            \E w \in {SaveSites([OtherState EXCEPT !.heap[r] = Append(other.local, site)],
                                r, now, {})} :
              /\ kv' = w.st.kv
              /\ other' = [pc |-> "done", res |-> ResultOf(w.err),
                           put |-> Append(other.local, site)]
              /\ sput' = IF w.err = "none" THEN Some(Append(other.local, site)) ELSE sput
    /\ UNCHANGED <<now, cacheVars, heap, kvAvailable, dataSource, isInitialized, bundle,
                   adVars, migVars, thVars, own>>

\* this process's addSite / deleteSite, with what it answered and the array it
\* handed to saveSites
OwnWrite(op, o, passed) ==
  /\ Committed(o.st)
  /\ own' = [op |-> op, res |-> o.res, put |-> passed]
  /\ sput' = IF o.res = "ok" THEN Some(passed) ELSE sput
  /\ UNCHANGED other

OwnAddSite ==
  \E site \in FreshSites, fails \in SiteFaults :
    /\ isInitialized
    /\ \E g \in {GetSites(Cur, TRUE, now, fails)} :
         OwnWrite("addSite", DMAddSite(Cur, site, now, fails), Append(g.st.heap[g.val], site))

OwnDeleteSite ==
  \E siteId \in SiteIds, fails \in SiteFaults :
    /\ isInitialized
    /\ \E g \in {GetSites(Cur, TRUE, now, fails)} :
         OwnWrite("deleteSite", DMDeleteSite(Cur, siteId, now, fails),
                  SelectSeq(g.st.heap[g.val], LAMBDA x : x.id # siteId))

\* this process reads, adds and deletes bookmarks while the other one adds one
SharedNext ==
  \/ DMInitCall
  \/ GetSitesCall
  \/ OwnAddSite
  \/ OwnDeleteSite
  \/ DMTick
  \/ OtherRead
  \/ OtherAddSite

SpecShared == DMStart /\ [][SharedNext]_vars

(***************************************************************************)
(* KVAdapter calls.  A single-key call runs to completion; batchGet and    *)
(* batchSet start one get / set per key, each with its own store call in   *)
(* flight, and the store answers them in any order.                        *)
(***************************************************************************)
BatchKeys == {K_CATEGORIES, K_SITES}
\* the key arrays of a batch: the sequences of distinct keys
BatchKeySeqs ==
  {<<k>> : k \in BatchKeys} \cup
  {<<p[1], p[2]>> : p \in {q \in BatchKeys \X BatchKeys : q[1] # q[2]}}
\* the value batchSet is given under each key
BatchValue(key) == StaticRef(IF key = K_CATEGORIES THEN "categories" ELSE "sites")

Faults == {None} \cup {Some(e) : e \in StoreErrors}

\* the outcome of a settled call: failed when its store call threw or the store
\* is unavailable, rejected when the call rejected, with error
Settle(op, key, failed, rejected, error) ==
  [op |-> op, key |-> key, failed |-> failed, rejected |-> rejected, error |-> error]

AdapterCommit(st) ==
  /\ Compacted(st)
  /\ kv' = st.kv
  /\ UNCHANGED <<now, kvAvailable, dataSource, isInitialized, bundle, clast, cwritten, cused, migVars, thVars, shVars>>

AdapterGetCall ==
  \E key \in KVKeys, fault \in Faults :
    /\ kbatch = NoBatch
    /\ \E r \in {KVAdapterGet(Cur, key, now, IsSome(fault))} :
         /\ AdapterCommit(r.st)
         /\ klast' = Settle("kv_get", key, r.err # "none", r.err # "none",
                            IF r.err # "none" THEN Rejection("kv_get", key, fault) ELSE NoError)
    /\ UNCHANGED kbatch

AdapterSetCall ==
  \E key \in BatchKeys, fault \in Faults :
    /\ kbatch = NoBatch
    /\ \E r \in {KVAdapterSet(Cur, key, BatchValue(key), now, IsSome(fault))} :
         /\ AdapterCommit(r.st)
         /\ klast' = Settle("kv_set", key, r.err # "none", r.err # "none",
                            IF r.err # "none" THEN Rejection("kv_set", key, fault) ELSE NoError)
    /\ UNCHANGED kbatch

AdapterDeleteCall ==
  \E key \in BatchKeys, fault \in Faults :
    /\ kbatch = NoBatch
    /\ \E r \in {KVAdapterDelete(Cur, key, now, IsSome(fault))} :
         /\ AdapterCommit(r.st)
         /\ klast' = Settle("kv_delete", key, r.err # "none", r.err # "none",
                            IF r.err # "none" THEN Rejection("kv_delete", key, fault) ELSE NoError)
    /\ UNCHANGED kbatch

AdapterListCall ==
  \E fault \in Faults :
    /\ kbatch = NoBatch
    /\ \E r \in {KVAdapterList(Cur, IsSome(fault))} :
         klast' = Settle("kv_list", Null, r.err # "none", r.err # "none",
                         IF r.err # "none" THEN Rejection("kv_list", Null, fault) ELSE NoError)
    /\ UNCHANGED <<now, cm, heap, kv, kvAvailable, dataSource, isInitialized, bundle,
                   clast, cwritten, cused, kbatch, migVars, thVars, shVars>>

\* keys.map(async key => ...): each callback runs up to its store call
RECURSIVE BeginAll(_, _, _)
BeginAll(st, keys, t) ==
  IF keys = <<>> THEN [st |-> st, pc |-> <<>>, got |-> <<>>]
  ELSE Bind(KVGetBegin(st, Head(keys), t), LAMBDA b :
         Bind(BeginAll(b.st, Tail(keys), t), LAMBDA rest :
           [st |-> rest.st,
            pc |-> <<IF b.phase = "hit" THEN "done" ELSE "waiting">> \o rest.pc,
            got |-> <<IF b.phase = "hit" THEN Some(b.st.heap[b.val]) ELSE None>> \o rest.got]))

Waiting(pc) == {i \in DOMAIN pc : pc[i] = "waiting"}

\* Promise.all over callbacks that rethrow
SettleRethrown(pc) ==
  IF \E i \in DOMAIN pc : pc[i] = "failed" THEN "rejected"
  ELSE IF Waiting(pc) = {} THEN "resolved" ELSE "pending"

\* Promise.all over batchGet's callbacks: a callback whose get failed catches
\* the error and resolves
BatchGetSettled(pc) == IF Waiting(pc) = {} THEN "resolved" ELSE "pending"

BatchGetStart ==
  \E keys \in BatchKeySeqs :
    /\ kbatch = NoBatch
    /\ IF ~kvAvailable
       THEN /\ klast' = Settle("kv_batch_get", keys, TRUE, TRUE,
                               Rejection("kv_batch_get", keys, None))
            /\ UNCHANGED <<kbatch, cm, heap, kv>>
       ELSE \E b \in {BeginAll(Cur, keys, now)} :
              /\ Compacted(b.st)
              /\ kbatch' = [op |-> "kv_batch_get", keys |-> keys, pc |-> b.pc, got |-> b.got,
                            settled |-> BatchGetSettled(b.pc),
                            error |-> NoError]
              /\ UNCHANGED <<klast, kv>>
    /\ UNCHANGED <<now, kvAvailable, dataSource, isInitialized, bundle, clast, cwritten, cused, migVars, thVars, shVars>>

\* the store answers the get of keys[i]; the callback's catch stores null
BatchGetComplete ==
  \E i \in 1..2, getFails \in BOOLEAN :
    /\ kbatch.op = "kv_batch_get"
    /\ i \in Waiting(kbatch.pc)
    /\ \E r \in {KVGetEnd(Cur, kbatch.keys[i], now, getFails)} :
       \E pc \in {[kbatch.pc EXCEPT ![i] = IF r.err = "none" THEN "done" ELSE "failed"]} :
         /\ AdapterCommit(r.st)
         /\ kbatch' = [kbatch EXCEPT
                         !.pc = pc,
                         !.got[i] = IF r.val = Null THEN None ELSE Some(r.st.heap[r.val]),
                         !.settled = BatchGetSettled(pc)]
    /\ UNCHANGED klast

BatchSetStart ==
  \E keys \in BatchKeySeqs :
    /\ kbatch = NoBatch
    /\ IF ~kvAvailable
       THEN /\ klast' = Settle("kv_batch_set", keys, TRUE, TRUE,
                               Rejection("kv_batch_set", keys, None))
            /\ UNCHANGED kbatch
       ELSE /\ kbatch' = [op |-> "kv_batch_set", keys |-> keys,
                          pc |-> [i \in DOMAIN keys |-> "waiting"],
                          got |-> [i \in DOMAIN keys |-> None],
                          settled |-> "pending", error |-> NoError]
            /\ UNCHANGED klast
    /\ UNCHANGED <<now, cm, heap, kv, kvAvailable, dataSource, isInitialized, bundle,
                   clast, cwritten, cused, migVars, thVars, shVars>>

\* the store answers the put of keys[i]; Promise.all rejects with the first
\* rejection and resolves when every promise has resolved
BatchSetComplete ==
  \E i \in 1..2, fault \in Faults :
    /\ kbatch.op = "kv_batch_set"
    /\ i \in Waiting(kbatch.pc)
    /\ \E r \in {KVAdapterSet(Cur, kbatch.keys[i], BatchValue(kbatch.keys[i]), now, IsSome(fault))} :
       \E pc \in {[kbatch.pc EXCEPT ![i] = IF r.err = "none" THEN "done" ELSE "failed"]} :
         /\ AdapterCommit(r.st)
         /\ kbatch' =
              IF kbatch.settled # "pending" THEN [kbatch EXCEPT !.pc = pc]
              ELSE IF r.err # "none"
              THEN [kbatch EXCEPT
                      !.pc = pc, !.settled = "rejected",
                      !.error = HandleErrorNetwork(Rejection("kv_set", kbatch.keys[i], fault),
                                                   "kv_batch_set", kbatch.keys)]
              ELSE [kbatch EXCEPT
                      !.pc = pc,
                      !.settled = IF Waiting(pc) = {} THEN "resolved" ELSE "pending"]
    /\ UNCHANGED klast

\* the caller has the outcome and every store call has been answered
BatchReturn ==
  /\ kbatch # NoBatch
  /\ kbatch.settled # "pending"
  /\ Waiting(kbatch.pc) = {}
  /\ klast' = Settle(kbatch.op, kbatch.keys, \E i \in DOMAIN kbatch.pc : kbatch.pc[i] = "failed",
                     kbatch.settled = "rejected", kbatch.error)
  /\ kbatch' = NoBatch
  /\ UNCHANGED <<now, cm, heap, kv, kvAvailable, dataSource, isInitialized, bundle,
                 clast, cwritten, cused, migVars, thVars, shVars>>

AdapterNext ==
  \/ AdapterGetCall
  \/ AdapterSetCall
  \/ AdapterDeleteCall
  \/ AdapterListCall
  \/ BatchGetStart
  \/ BatchGetComplete
  \/ BatchSetStart
  \/ BatchSetComplete
  \/ BatchReturn

SpecAdapter == DMStart /\ [][AdapterNext]_vars

(***************************************************************************)
(* ApiClient and its RequestThrottler.  A request that passes the          *)
(* throttler calls fetch and is settled later by the response, a failure   *)
(* or the timeout.                                                         *)
(***************************************************************************)
MinInterval == 1000       \* RequestThrottler.minInterval
ClockStep == 500          \* the throttler's clock advances by this much
ClockSteps == 4           \* and at most this often
Epoch == 1000000          \* Date.now() when the page loads

\* markRequestEnd that leaves the key marked
MarkRequestKept(active, key) == active

CanMakeRequest(active, last, key, t) ==
  LET lastTime == IF key \in DOMAIN last THEN last[key] ELSE 0 IN
  IF key \in active THEN FALSE
  ELSE IF t - lastTime < MinInterval THEN FALSE
  ELSE TRUE

MarkRequestStart(active, last, key, t) ==
  [active |-> active \cup {key},
   last |-> [k \in DOMAIN last \cup {key} |-> IF k = key THEN t ELSE last[k]]]

MarkRequestEnd(active, key) == active \ {key}

Outcomes == {"success", "failure", "timeout"}

\* what the caller of the request saw: busy / early say whether a fetch of the
\* key was unsettled, or one began less than MinInterval ago, when it called
Called(op, key, outcome, fetched, busy, early) ==
  [op |-> op, key |-> key, outcome |-> outcome, fetched |-> fetched,
   busy |-> busy, early |-> early]

\* ApiClient.request up to its await fetch(...)
ApiRequest ==
  \E key \in RequestKeys :
    LET busy == fetches[key].pending > 0
        early == IsSome(fetches[key].started) /\ now - Get(fetches[key].started) < MinInterval IN
    /\ IF ~CanMakeRequest(activeRequests, lastRequestTimes, key, now)
       THEN /\ tcall' = Called("request", key, "throttled", FALSE, busy, early)
            /\ UNCHANGED <<activeRequests, lastRequestTimes, fetches>>
       ELSE \E m \in {MarkRequestStart(activeRequests, lastRequestTimes, key, now)} :
              /\ activeRequests' = m.active
              /\ lastRequestTimes' = m.last
              /\ fetches' = [fetches EXCEPT ![key] = [pending |-> @.pending + 1,
                                                      started |-> Some(now)]]
              /\ tcall' = Called("request", key, "pending", TRUE, busy, early)
    /\ UNCHANGED <<now, cacheVars, dmVars, adVars, migVars, shVars>>

\* the fetch settles: response, rejection or abort; finally markRequestEnd
ApiSettle ==
  \E key \in RequestKeys, outcome \in Outcomes :
    /\ fetches[key].pending > 0
    /\ fetches' = [fetches EXCEPT ![key].pending = @ - 1]
    /\ activeRequests' = MarkRequestEnd(activeRequests, key)
    /\ tcall' = Called("settle", key, outcome, TRUE, FALSE, FALSE)
    /\ UNCHANGED <<now, lastRequestTimes, cacheVars, dmVars, adVars, migVars, shVars>>

ApiTick ==
  /\ now < Epoch + ClockSteps * ClockStep
  /\ now' = now + ClockStep
  /\ UNCHANGED <<cacheVars, dmVars, adVars, migVars, thVars, shVars>>

ApiNext ==
  \/ ApiRequest
  \/ ApiSettle
  \/ ApiTick

(***************************************************************************)
(* MigrationTool.  migrateToKV sets the status and yields at its first     *)
(* await and at every store call after it; each time it is resumed it runs *)
(* to its next await.  mflight counts the migrateToKV calls that have      *)
(* started and not yet returned, mruns holds the await each one is at.     *)
(***************************************************************************)
MaxFlight == 2       \* migrateToKV calls in flight at once

\* the datasets a migration may be given: the bundled one, another valid one,
\* four that validateData refuses, and one in which two bookmarks share a url
MigBundles ==
  Bundles \cup
  {[categories |-> <<Cat("c1", "n1"), Cat("c2", "n2")>>,
    sites |-> <<Site("s1", "u1", "c1"), Site("s2", "u2", "c2")>>],
   [categories |-> <<Cat("c1", "n1"), Cat("c1", "n2")>>, sites |-> <<Site("s1", "u1", "c1")>>],
   [categories |-> <<Cat("c1", "n1")>>,
    sites |-> <<Site("s1", "u1", "c1"), Site("s1", "u2", "c1")>>],
   [categories |-> <<Cat("c1", "n1")>>, sites |-> <<Site("s1", "u1", "c2")>>],
   [categories |-> <<Cat("c1", "")>>, sites |-> <<>>],
   [categories |-> <<Cat("c1", "n1")>>,
    sites |-> <<Site("s1", "u1", "c1"), Site("s2", "u1", "c1")>>]}

\* validateData accepts everything
ValidateNothing(categories, sites) == TRUE

\* validateData: complete records, no dangling category, unique ids
ValidateData(categories, sites) ==
  /\ \A i \in 1..Len(categories) : categories[i].id # "" /\ categories[i].name # ""
  /\ \A i \in 1..Len(sites) :
       /\ sites[i].id # "" /\ sites[i].url # "" /\ sites[i].category # ""
       /\ \E j \in 1..Len(categories) : categories[j].id = sites[i].category
  /\ Cardinality({categories[i].id : i \in 1..Len(categories)}) = Len(categories)
  /\ Cardinality({sites[i].id : i \in 1..Len(sites)}) = Len(sites)

CheckPrerequisites == kvAvailable

\* setVersion that records the version of an earlier release
KVAdapterSetVersionOld(st, version, t, putFails) ==
  LET r == NewRef(st)
      st1 == [st EXCEPT !.heap[r] = [version |-> VersionOld]]
  IN KVAdapterSet(st1, K_VERSION, r, t, putFails)

\* setVersion(version): set of a new version record
KVAdapterSetVersion(st, version, t, putFails) ==
  LET r == NewRef(st)
      st1 == [st EXCEPT !.heap[r] = [version |-> version]]
  IN KVAdapterSet(st1, K_VERSION, r, t, putFails)

\* dataManager.clearCache()
DMClearCache(st) ==
  [st EXCEPT !.cm = CacheManagerDelete(
                      CacheManagerDelete(st.cm, DMCacheKey("categories"), NoIO).c,
                      DMCacheKey("sites"), NoIO).c]

MigFaultPoints == FaultPoints \cup {"put:metadata", "put:version"}
MigFaults == {None} \cup {Some(p) : p \in MigFaultPoints}

\* the metadata record of a migration
MigMetadata(categories, sites) ==
  [categories |-> Some([count |-> Len(categories)]),
   sites |-> Some([count |-> Len(sites)]),
   migration |-> Some("static_to_kv")]

\* the fields of the MigrationTool a migration writes
MigTool(status, progress, errors) ==
  [status |-> status, progress |-> progress, errors |-> errors]

\* catch (error): status FAILED, the message pushed on errors, return false
MigCaught(st, mt, cause) ==
  [st |-> st, pc |-> "done",
   mt |-> [mt EXCEPT !.status = "failed", !.errors = Append(@, cause)]]

MigAwait(st, mt, progress, pc) ==
  [st |-> st, pc |-> pc, mt |-> [mt EXCEPT !.progress = progress]]

\* migrateToKV resumed at the await pc, run to its next await or to its return
\* (pc "done"); fails: the store call it was waiting for rejected
MigStep(st, mt, pc, t, fails) ==
  LET sc == st.heap[StaticRef("categories")]
      ss == st.heap[StaticRef("sites")] IN
  CASE pc = "start" ->
         IF ~CheckPrerequisites
         THEN [st |-> st, pc |-> "done", mt |-> [mt EXCEPT !.status = "failed"]]
         ELSE IF ~ValidateData(sc, ss)
         THEN [st |-> st, pc |-> "done",
               mt |-> [mt EXCEPT !.progress = 10, !.status = "failed",
                                 !.errors = Append(@, "validation")]]
         ELSE MigAwait(st, mt, 20, "get:categories")
    [] pc = "get:categories" ->
         Bind(KVAdapterGet(st, K_CATEGORIES, t, fails), LAMBDA g :
           IF g.err # "none" THEN MigCaught(g.st, mt, "store")
           ELSE MigAwait(g.st, mt, mt.progress, "get:sites"))
    [] pc = "get:sites" ->
         Bind(KVAdapterGet(st, K_SITES, t, fails), LAMBDA g :
           IF g.err # "none" THEN MigCaught(g.st, mt, "store")
           ELSE MigAwait(g.st, mt, 30, "put:categories"))
    [] pc = "put:categories" ->
         Bind(KVAdapterSet(st, K_CATEGORIES, StaticRef("categories"), t, fails), LAMBDA w :
           IF w.err # "none" THEN MigCaught(w.st, mt, "store")
           ELSE MigAwait(w.st, mt, 50, "put:sites"))
    [] pc = "put:sites" ->
         Bind(KVAdapterSet(st, K_SITES, StaticRef("sites"), t, fails), LAMBDA w :
           IF w.err # "none" THEN MigCaught(w.st, mt, "store")
           ELSE MigAwait(w.st, mt, 70, "put:metadata"))
    [] pc = "put:metadata" ->
         Bind(NewRef(st), LAMBDA r :
         Bind(KVAdapterSet([st EXCEPT !.heap[r] = MigMetadata(sc, ss)], K_METADATA, r, t, fails),
              LAMBDA w :
           IF w.err # "none" THEN MigCaught(w.st, mt, "store")
           ELSE MigAwait(w.st, mt, 85, "put:version")))
    [] pc = "put:version" ->
         Bind(KVAdapterSetVersion(st, VersionCurrent, t, fails), LAMBDA w :
           IF w.err # "none" THEN MigCaught(w.st, mt, "store")
           ELSE [st |-> DMClearCache(w.st), pc |-> "done",
                 mt |-> [mt EXCEPT !.progress = 100, !.status = "completed"]])

RECURSIVE MigRun(_, _, _, _, _)
MigRun(st, mt, pc, t, fault) ==
  IF pc = "done" THEN [st |-> st, mt |-> mt]
  ELSE Bind(MigStep(st, mt, pc, t, fault = Some(pc)), LAMBDA r :
         MigRun(r.st, r.mt, r.pc, t, fault))

\* migrateToKV from its first await to its return with nothing running in
\* between; fault is the store call that rejects
MigrateToKV(st, t, fault) ==
  Bind(MigRun(st, MigTool("in_progress", 0, <<>>), "start", t, fault), LAMBDA r :
    [st |-> r.st, status |-> r.mt.status, ok |-> r.mt.status = "completed",
     progress |-> r.mt.progress, errors |-> r.mt.errors])

\* exportFromKV: the three records read through the adapter and validated;
\* null when anything throws
MigExportFromKV(st, t, fault) ==
  LET null == [categories |-> Null, sites |-> Null]
      Thrown(st1) == [st |-> st1, ok |-> FALSE, data |-> null, invalid |-> FALSE] IN
  IF ~kvAvailable THEN Thrown(st)
  ELSE
  Bind(KVAdapterGet(st, K_CATEGORIES, t, fault = Some("get:categories")), LAMBDA g1 :
  IF g1.err # "none" THEN Thrown(g1.st) ELSE
  Bind(KVAdapterGet(g1.st, K_SITES, t, fault = Some("get:sites")), LAMBDA g2 :
  IF g2.err # "none" THEN Thrown(g2.st) ELSE
  Bind(KVAdapterGet(g2.st, K_METADATA, t, FALSE), LAMBDA g3 :
    IF g3.err # "none" \/ g1.val = Null \/ g2.val = Null THEN Thrown(g3.st)
    ELSE IF ~ValidateData(g3.st.heap[g1.val], g3.st.heap[g2.val])
    THEN [st |-> g3.st, ok |-> FALSE, data |-> null, invalid |-> TRUE]
    ELSE [st |-> g3.st, ok |-> TRUE, invalid |-> FALSE,
          data |-> [categories |-> g3.st.heap[g1.val], sites |-> g3.st.heap[g2.val]]])))

MigCommit(st) ==
  /\ Compacted(st)
  /\ kv' = st.kv
  /\ UNCHANGED <<now, kvAvailable, dataSource, isInitialized, bundle, clast, cwritten, cused, adVars, thVars, shVars>>

\* migrateToKV up to its first await
MigrateBegin ==
  /\ mflight < MaxFlight
  /\ mstatus' = "in_progress"
  /\ mprogress' = 0
  /\ merrors' = <<>>
  /\ mruns' = Append(mruns, "start")
  /\ mflight' = mflight + 1
  /\ mlast' = "migrateToKV"
  /\ UNCHANGED <<now, cacheVars, dmVars, adVars, thVars, shVars>>

Without(runs, i) == SubSeq(runs, 1, i - 1) \o SubSeq(runs, i + 1, Len(runs))

\* a migrateToKV in flight is resumed and runs to its next await or its return
MigrateStep ==
  \E i \in 1..MaxFlight, fails \in BOOLEAN :
    /\ i \in DOMAIN mruns
    /\ \E r \in {MigStep(Cur, MigTool(mstatus, mprogress, merrors), mruns[i], now, fails)} :
         /\ MigCommit(r.st)
         /\ mstatus' = r.mt.status
         /\ mprogress' = r.mt.progress
         /\ merrors' = r.mt.errors
         /\ mruns' = IF r.pc = "done" THEN Without(mruns, i) ELSE [mruns EXCEPT ![i] = r.pc]
         /\ mflight' = IF r.pc = "done" THEN mflight - 1 ELSE mflight
    /\ mlast' = "migrateToKV"

ExportFromKV ==
  \E fault \in {None, Some("get:categories"), Some("get:sites")} :
    /\ \E r \in {MigExportFromKV(Cur, now, fault)} :
         /\ MigCommit(r.st)
         /\ merrors' = IF r.invalid THEN Append(merrors, "validation") ELSE merrors
    /\ mlast' = "exportFromKV"
    /\ UNCHANGED <<mstatus, mflight, mprogress, mruns>>

Reset ==
  /\ mstatus' = "not_started"
  /\ mprogress' = 0
  /\ merrors' = <<>>
  /\ mlast' = "reset"
  /\ UNCHANGED <<mflight, mruns, now, cacheVars, dmVars, adVars, thVars, shVars>>

\* the store before a migration: empty, or what an earlier release's migration left
MigStart ==
  /\ now = 0
  /\ bundle \in MigBundles
  /\ heap = [r \in Refs |->
               IF r = "SC" THEN bundle.categories
               ELSE IF r = "SS" THEN bundle.sites ELSE <<>>]
  /\ cm = CacheManagerNew("memory", DefaultMaxSize, DefaultTTL, DMCacheKeys)
  /\ kvAvailable \in BOOLEAN
  /\ kv \in (IF kvAvailable THEN UNION {Stores(b) : b \in Bundles} ELSE {EmptyStore})
  /\ dataSource = "static"
  /\ isInitialized = FALSE
  /\ clast = Returned("new", Null, Null, FALSE)
  /\ cwritten = <<>>
  /\ cused = <<>>
  /\ AdapterIdle
  /\ MigrationIdle
  /\ ThrottlerIdle
  /\ OtherIdle

MigNext ==
  \/ MigrateBegin
  \/ MigrateStep
  \/ ExportFromKV
  \/ Reset

SpecMigration == MigStart /\ [][MigNext]_vars

\* the DataManager variables while only the cache is exercised
DMIdle ==
  /\ heap = <<>>
  /\ kv = <<>>
  /\ kvAvailable = FALSE
  /\ dataSource = "static"
  /\ isInitialized = FALSE
  /\ bundle = <<>>
  /\ AdapterIdle
  /\ MigrationIdle
  /\ ThrottlerIdle
  /\ OtherIdle

ApiStart ==
  /\ now = Epoch
  /\ cm = <<>>
  /\ clast = Returned("new", Null, Null, FALSE)
  /\ cwritten = <<>>
  /\ cused = <<>>
  /\ DMIdle

SpecApi == ApiStart /\ [][ApiNext]_vars

CacheMemoryInit == CacheInit("memory", CacheKeys) /\ DMIdle

CacheHybridInit == CacheInit("hybrid", DurableKeys) /\ DMIdle

SpecCacheMemory == CacheMemoryInit /\ [][CacheNext]_vars

SpecCacheHybrid == CacheHybridInit /\ [][CacheHybridNext]_vars

CacheAnyInit ==
  /\ \E strategy \in Strategies : CacheInitSized(strategy, AnyKeys, AnyMaxSize)
  /\ DMIdle

SpecCacheAny == CacheAnyInit /\ [][CacheAnyNext]_vars

(***************************************************************************)
(* What a caller and the store see                                         *)
(***************************************************************************)
Types == {"categories", "sites"}

\* what the next getCategories() / getSites() of this process returns
ViewOf(st, type) ==
  Bind(GetCollection(st, type, TRUE, now, {}), LAMBDA g : g.st.heap[g.val])

\* the collection held in the remote store; while the store has none the Data
\* Manager serves the bundled one
Persisted(store, type) ==
  IF IsSome(store[KVKeyOf(type)]) THEN Get(store[KVKeyOf(type)]) ELSE bundle[type]

IdsOf(arr) == {arr[i].id : i \in 1..Len(arr)}
UniqueIds(arr) == \A i, j \in 1..Len(arr) : arr[i].id = arr[j].id => i = j
UniqueUrls(arr) == \A i, j \in 1..Len(arr) : arr[i].url = arr[j].url => i = j
InCategory(arr, id) == SelectSeq(arr, LAMBDA x : x.category = id)

InKVMode == isInitialized /\ dataSource = "kv"
InStaticMode == isInitialized /\ dataSource = "static"

\* the outcomes of the add and delete calls that can be issued in this state
AddDeleteOutcomes ==
  {DMAddCategory(Cur, c, now, f) : c \in CategoryInputs, f \in CategoryFaults}
  \cup {DMDeleteCategory(Cur, id, now, f) : id \in CategoryIds, f \in DeleteCategoryFaults}
  \cup {DMAddSite(Cur, x, now, f) : x \in SiteInputs, f \in SiteFaults}
  \cup {DMDeleteSite(Cur, id, now, f) : id \in SiteIds, f \in SiteFaults}

\* the outcomes of all six write calls that can be issued in this state
WriteOutcomes ==
  AddDeleteOutcomes
  \cup {DMAddSite(Cur, x, now, f) : x \in FreshSites, f \in SiteFaults}
  \cup {DMUpdateCategory(Cur, id, u, now, f) :
          id \in UpdatedCategoryIds, u \in CategoryUpdates, f \in CategoryFaults}
  \cup {DMUpdateSite(Cur, id, u, now, f) :
          id \in UpdatedSiteIds, u \in SiteUpdates, f \in SiteFaults}

(***************************************************************************)
(* Collection contract                                                     *)
(***************************************************************************)
\* C1: in KV mode every bookmark of the persisted sites collection names a
\* category of the persisted categories collection.
C1_ReferentialIntegrity ==
  InKVMode =>
    \A i \in 1..Len(Persisted(kv, "sites")) :
      Persisted(kv, "sites")[i].category \in IdsOf(Persisted(kv, "categories"))

\* C2: in KV mode a failed add or delete (validation failure or rejected put)
\* leaves what the next getCategories() / getSites() returns, and the collections
\* in the store, exactly as they were before the call.
C2_FailedWriteLeavesState ==
  InKVMode =>
    \A o \in AddDeleteOutcomes :
      o.res # "ok" =>
        /\ \A type \in Types : ViewOf(o.st, type) = ViewOf(Cur, type)
        /\ \A type \in Types : o.st.kv[KVKeyOf(type)] = kv[KVKeyOf(type)]

C4_DeleteCategoryGuard ==
  InKVMode =>
    \A id \in CategoryIds, f \in DeleteCategoryFaults :
      LET n == Len(InCategory(ViewOf(Cur, "sites"), id))
          o == DMDeleteCategory(Cur, id, now, f)
      IN /\ n >= 1 =>
              /\ o.res = "validation"
              /\ o.count = n
              /\ o.st.kv[K_CATEGORIES] = kv[K_CATEGORIES]
              /\ ViewOf(o.st, "categories") = ViewOf(Cur, "categories")
         /\ (n = 0 /\ f = {}) =>
              /\ o.res = "ok"
              /\ ~HasId(Persisted(o.st.kv, "categories"), id)
              /\ ~HasId(ViewOf(o.st, "categories"), id)

(***************************************************************************)
(* Data source and fallback                                                *)
(***************************************************************************)
\* C5: with the store unavailable, getCategories() and getSites() return the
\* bundled dataset unchanged at every point of any call sequence.
C5_StaticReadsBundle ==
  (isInitialized /\ ~kvAvailable) =>
    \A type \in Types, useCache \in BOOLEAN :
      Bind(GetCollection(Cur, type, useCache, now, {}), LAMBDA g : g.st.heap[g.val])
        = bundle[type]

\* C6 as stated: in STATIC mode every write call fails with the read-only-mode
\* error, whatever its arguments, and issues no put.
C6_StaticWritesReadOnly ==
  InStaticMode =>
    \A o \in WriteOutcomes : o.res = "readonly" /\ o.st.puts = 0 /\ o.st.kv = kv

\* C6: in STATIC mode every write call fails, with a Validation error when its
\* own check rejects the arguments and with the read-only-mode error otherwise,
\* and issues no put.
C6_StaticWritesFail ==
  InStaticMode =>
    \A o \in WriteOutcomes :
      o.res \in {"readonly", "validation"} /\ o.st.puts = 0 /\ o.st.kv = kv

\* C6 witness: STATIC mode after a write was attempted (it left its category in
\* the static array); one write now fails read-only, another with Validation.
C6_WitnessBothErrors ==
  /\ InStaticMode
  /\ heap["SC"] # bundle.categories
  /\ \E o \in WriteOutcomes : o.res = "readonly"
  /\ \E o \in WriteOutcomes : o.res = "validation"

\* C7: once initialized, the data source is KV only if the store is available and
\* its Version Record is absent or compatible; a store holding an incompatible
\* Version Record means STATIC mode.
C7_DataSourceSelection ==
  isInitialized =>
    /\ dataSource = "kv" =>
         /\ kvAvailable
         /\ IsSome(kv[K_VERSION]) => Get(kv[K_VERSION]).version \in VersionCompatible
    /\ (IsSome(kv[K_VERSION]) /\ Get(kv[K_VERSION]).version \notin VersionCompatible)
         => dataSource = "static"

\* C8: in KV mode a getCategories() / getSites() whose store read fails resolves
\* to the bundled dataset's collection.
C8_FailedReadReturnsBundle ==
  InKVMode =>
    \A type \in Types, useCache \in BOOLEAN :
      Bind(GetCollection(Cur, type, useCache, now, {GetPoint(type)}), LAMBDA g :
        g.caught => g.st.heap[g.val] = bundle[type])

(***************************************************************************)
(* Cache TTL                                                               *)
(***************************************************************************)
LastWrite(k) == Get(cwritten[k])

\* C9 as stated: in-process strategy, after set(k, v, ttl) with no later
\* set/delete of k, a get(k) within ttl of the entry's creation returns v, and a
\* get(k) after that returns absent and removes the entry (size() no longer
\* counts k).
C9_TTLMemoryAsStated ==
  (cm.strategy = "memory" /\ clast.op = "get" /\ IsSome(cwritten[clast.key])) =>
    LET w == LastWrite(clast.key) IN
    IF now - w.at <= w.ttl
    THEN clast.data = w.v
    ELSE /\ clast.data = Null
         /\ ~IsSome(cm.memory.cache[clast.key])
         /\ MemoryCacheSize(cm.memory) =
              Cardinality({k \in KeysOf(cm) \ {clast.key} : IsSome(cm.memory.cache[k])})

\* C9: in-process strategy, after set(k, v, ttl) with no later set/delete of k
\* (clear() deletes every key) and k not evicted since by the capacity bound (a
\* later set of another key that made size() exceed maxSize), a get(k) within
\* ttl of the entry's creation returns v, and a get(k) after that returns absent
\* and removes the entry (size() no longer counts k).
C9_TTLMemory ==
  (/\ cm.strategy = "memory"
   /\ clast.op = "get"
   /\ IsSome(cwritten[clast.key])
   /\ ~LastWrite(clast.key).lost) =>
    LET w == LastWrite(clast.key) IN
    IF now - w.at <= w.ttl
    THEN clast.data = w.v
    ELSE /\ clast.data = Null
         /\ ~IsSome(cm.memory.cache[clast.key])
         /\ MemoryCacheSize(cm.memory) =
              Cardinality({k \in KeysOf(cm) \ {clast.key} : IsSome(cm.memory.cache[k])})

\* C9 witness: a get(k) issued exactly ttl after the set of k returned v.
C9_WitnessHit ==
  /\ cm.strategy = "memory"
  /\ clast.op = "get"
  /\ IsSome(cwritten[clast.key])
  /\ ~LastWrite(clast.key).lost
  /\ now - LastWrite(clast.key).at = LastWrite(clast.key).ttl
  /\ clast.data = LastWrite(clast.key).v

\* C10 as stated: hybrid strategy, after set(k, v, ttl) with no later set of k,
\* no get(k) issued more than ttl after the set returned gives v.
C10_TTLHybrid ==
  (/\ cm.strategy = "hybrid"
   /\ clast.op = "get"
   /\ IsSome(cwritten[clast.key])
   /\ now - LastWrite(clast.key).at > LastWrite(clast.key).ttl) =>
    clast.data # LastWrite(clast.key).v

(***************************************************************************)
(* Cache capacity and failures                                             *)
(***************************************************************************)
HeldInMemory(c) == {k \in KeysOf(c) : IsSome(c.memory.cache[k])}
HeldInStorage(c) == {k \in KeysOf(c) : IsSome(c.storage[k]) /\ IsEntry(Get(c.storage[k]))}

\* C11: in-process strategy with maxSize = N holding N live entries: a set of a
\* new key evicts exactly one entry, the one whose last access (set or get that
\* returned its value) is the oldest, and the new key stays.
C11_LRUEviction ==
  (/\ cm.strategy = "memory"
   /\ MemoryCacheSize(cm.memory) = cm.maxSize
   /\ \A k \in HeldInMemory(cm) : ~Expired(Get(cm.memory.cache[k]), now)) =>
    \A k \in KeysOf(cm) \ HeldInMemory(cm) :
      \A v \in CacheValues(k), ttl \in TTLArgs(cm, k) :
        Bind(CacheManagerSet(cm, k, v, ttl, now, now, NoIO).c, LAMBDA c2 :
          /\ k \in HeldInMemory(c2)
          /\ HeldInMemory(cm) \ HeldInMemory(c2) = {Head(cused)})

\* C12: under every strategy, once a set has returned no tier holds more than
\* maxSize entries.
C12_CapacityBound ==
  clast.op = "set" =>
    /\ Cardinality(HeldInMemory(cm)) <= cm.maxSize
    /\ Cardinality(HeldInStorage(cm)) <= cm.maxSize

\* a get of k goes to the durable tier
ReachesStorage(c, k) ==
  \/ c.strategy = "local"
  \/ c.strategy = "hybrid" /\ MemoryCacheGet(c.memory, k, now).data = Null

\* C13: under every strategy no cache call raises an error, whichever of
\* setItem / getItem / removeItem throws and whichever stored items are not
\* JSON; a get that goes to the durable tier while getItem throws or the item
\* of the key is not JSON returns absent.
C13_CacheFailuresContained ==
  /\ ~clast.err
  /\ \A io \in IOFaults :
       /\ ~CacheManagerClear(cm, io).err
       /\ ~CacheManagerCleanup(cm, now, io).err
       /\ \A k \in KeysOf(cm) :
            /\ ~CacheManagerSet(cm, k, "v1", 1, now, now, io).err
            /\ ~CacheManagerDelete(cm, k, io).err
            /\ ~CacheManagerGet(cm, k, now, io).err
            /\ (/\ ReachesStorage(cm, k)
                /\ io.get \/ cm.storage[k] = Some(Corrupt))
                 => CacheManagerGet(cm, k, now, io).data = Null

\* C13 witness: a get of a key whose stored item is not JSON went to the durable
\* tier and returned absent without an error.
C13_WitnessCorruptGet ==
  /\ cm.strategy \in {"local", "hybrid"}
  /\ clast.op = "get"
  /\ cm.storage[clast.key] = Some(Corrupt)
  /\ ~IsSome(cm.memory.cache[clast.key])
  /\ clast.data = Null
  /\ ~clast.err

(***************************************************************************)
(* Store Adapter                                                           *)
(***************************************************************************)
\* the objects a caller can pass: the imported arrays and the cached objects
LiveRefs == {"SC", "SS"} \cup (Referenced(cm) \cap SlotSet)

\* C14: when KVAdapter.set(k, v) resolves, the store and the adapter's cache
\* entry of k hold v and a following get(k) returns v; set rejects when the put
\* rejects, and the adapter's cache is then as it was before the call.
C14_WriteThrough ==
  kvAvailable =>
    \A key \in KVKeys, ref \in LiveRefs, putFails \in BOOLEAN :
      Bind(KVAdapterSet(Cur, key, ref, now, putFails), LAMBDA r :
        IF putFails
        THEN r.err = "store" /\ r.st.cm = cm /\ r.st.kv = kv
        ELSE /\ r.err = "none"
             /\ r.st.kv[key] = Some(heap[ref])
             /\ IsSome(r.st.cm.memory.cache[KVCacheKey(key)])
             /\ r.st.heap[Get(r.st.cm.memory.cache[KVCacheKey(key)]).data] = heap[ref]
             /\ \A getFails \in BOOLEAN :
                  Bind(KVAdapterGet(r.st, key, now, getFails), LAMBDA g :
                    g.err = "none" /\ g.st.heap[g.val] = heap[ref]))

\* C14 witness: addSite put the sites collection through KVAdapter.set: the
\* store and the adapter's cache entry hold the same collection, with s2 in it.
C14_WitnessSetResolved ==
  /\ InKVMode
  /\ IsSome(kv[K_SITES])
  /\ HasId(Get(kv[K_SITES]), "s2")
  /\ IsSome(cm.memory.cache[KVCacheKey(K_SITES)])
  /\ heap[Get(cm.memory.cache[KVCacheKey(K_SITES)]).data] = Get(kv[K_SITES])


SingleOps == {"kv_get", "kv_set", "kv_delete", "kv_list"}

\* C15: a store failure in KVAdapter.get, set, delete or list (the store being
\* unavailable included) reaches the caller as a rejection whose error is of
\* the network class and carries the operation name and the key.
C15_StoreFailuresAreNetworkErrors ==
  (klast.op \in SingleOps /\ klast.failed) =>
    /\ klast.rejected
    /\ klast.error.kind = "AppError"
    /\ klast.error.type = "network"
    /\ klast.error.details.operation = klast.op
    /\ klast.error.details.key = klast.key


\* what get(key) resolves to in the current state: None for null
GetNow(key) ==
  Bind(KVAdapterGet(Cur, key, now, FALSE), LAMBDA r :
    IF r.val = Null THEN None ELSE Some(r.st.heap[r.val]))

\* C16: with the store available batchGet never rejects, and once every get
\* has been answered it has resolved to one entry per requested key: null
\* under a key whose get failed, and under every other key the value get
\* returns for it.
C16_BatchGetResolves ==
  kbatch.op = "kv_batch_get" =>
    /\ kbatch.settled # "rejected"
    /\ Waiting(kbatch.pc) = {} => kbatch.settled = "resolved"
    /\ kbatch.settled = "resolved" =>
         /\ DOMAIN kbatch.got = DOMAIN kbatch.keys
         /\ \A i \in DOMAIN kbatch.keys :
              kbatch.got[i] = IF kbatch.pc[i] = "failed" THEN None ELSE GetNow(kbatch.keys[i])

\* C16 witness: a batchGet of two keys has resolved; the first key's get
\* failed and the second returned the stored value.
C16_WitnessOneFailed ==
  /\ kbatch.op = "kv_batch_get"
  /\ kbatch.settled = "resolved"
  /\ Len(kbatch.keys) = 2
  /\ kbatch.pc = <<"failed", "done">>
  /\ kbatch.got[1] = None
  /\ kbatch.got[2] # None


\* C17: when batchSet has rejected, every key's set has finished: no store
\* call of the batch is still in flight, so the store is not modified after
\* the caller has seen the rejection.
C17_BatchSetRejectsWhenAllFinished ==
  (kbatch.op = "kv_batch_set" /\ kbatch.settled = "rejected") => Waiting(kbatch.pc) = {}


(***************************************************************************)
(* Migration                                                               *)
(***************************************************************************)
\* C18: the status becomes IN_PROGRESS only from NOT_STARTED, and COMPLETED or
\* FAILED only from IN_PROGRESS; exportFromKV never changes it; reset returns
\* it to NOT_STARTED.
C18_StatusTransitions ==
  [][/\ (mstatus' = "in_progress" /\ mstatus # "in_progress") => mstatus = "not_started"
     /\ (mstatus' \in {"completed", "failed"} /\ mstatus' # mstatus) => mstatus = "in_progress"
     /\ mlast' = "exportFromKV" => mstatus' = mstatus
     /\ mlast' = "reset" => mstatus' = "not_started"]_vars

\* the static dataset has a duplicate category id, a duplicate bookmark id or a
\* bookmark whose category does not exist
InvalidDataset ==
  LET categories == heap[StaticRef("categories")]
      sites == heap[StaticRef("sites")] IN
  \/ ~UniqueIds(categories)
  \/ ~UniqueIds(sites)
  \/ \E i \in 1..Len(sites) : sites[i].category \notin IdsOf(categories)

\* C19: a migration of a dataset with a duplicate category id, a duplicate
\* bookmark id or a bookmark of a missing category returns false, leaves the
\* status FAILED and issues no put.
C19_InvalidDatasetRefused ==
  InvalidDataset =>
    \A fault \in MigFaults :
      Bind(MigrateToKV(Cur, now, fault), LAMBDA r :
        /\ ~r.ok
        /\ r.status = "failed"
        /\ r.st.puts = 0
        /\ r.st.kv = kv)

\* C19 witness: a migration of an invalid dataset against an available store
\* has returned, with the status FAILED.
C19_WitnessRefused ==
  /\ InvalidDataset
  /\ kvAvailable
  /\ mflight = 0
  /\ mstatus = "failed"

\* C20: a migration that ends FAILED, a put rejecting part-way included, leaves
\* the store's categories, sites, metadata and version as they were.
C20_FailedMigrationLeavesStore ==
  \A fault \in MigFaults :
    Bind(MigrateToKV(Cur, now, fault), LAMBDA r :
      r.status = "failed" => \A k \in KVKeys : r.st.kv[k] = kv[k])


\* the times a following call may run at: at once, or after the cached entries
\* have expired
FollowingTimes == {now, now + TickMs}

\* C21: when a migration of the static dataset D returns true, a following
\* exportFromKV returns a snapshot whose categories and sites are D's, element
\* for element and in order, and the stored version record passes
\* checkVersionCompatibility.
C21_MigrationRoundTrip ==
  \A fault \in MigFaults, t \in FollowingTimes :
    Bind(MigrateToKV(Cur, now, fault), LAMBDA r :
      r.ok =>
        /\ Bind(MigExportFromKV(r.st, t, None), LAMBDA e :
             /\ e.ok
             /\ e.data.categories = heap[StaticRef("categories")]
             /\ e.data.sites = heap[StaticRef("sites")])
        /\ CheckVersionCompatibility(r.st, t, FALSE).compatible)

\* C21 witness: a migration has completed and exportFromKV has run after it.
C21_WitnessExported ==
  /\ mstatus = "completed"
  /\ mflight = 0
  /\ mlast = "exportFromKV"
  /\ kv[K_CATEGORIES] = Some(heap[StaticRef("categories")])
  /\ kv[K_SITES] = Some(heap[StaticRef("sites")])


\* the values migrateToKV assigns to progress
Checkpoints == {0, 10, 20, 30, 50, 70, 85, 95, 100}

\* C22: progress only takes the checkpoint values, is 100 whenever the status is
\* COMPLETED and below 100 whenever it is FAILED, and never decreases while a
\* single migrateToKV runs.
C22_ProgressCheckpoints ==
  /\ [](/\ mprogress \in Checkpoints
        /\ mstatus = "completed" => mprogress = 100
        /\ mstatus = "failed" => mprogress < 100)
  /\ [][(mflight = 1 /\ mflight' <= 1 /\ mlast' = "migrateToKV") =>
          mprogress' >= mprogress]_vars


\* the static dataset breaks an invariant of the data model: unique ids in each
\* collection, unique bookmark urls, every bookmark in an existing category
BreaksDataModel ==
  InvalidDataset \/ ~UniqueUrls(heap[StaticRef("sites")])

\* C23: a migration of a dataset that breaks any invariant of the data model,
\* two bookmarks with different ids and the same url included, ends FAILED with
\* nothing written.
C23_ValidationEnforcesInvariants ==
  BreaksDataModel =>
    \A fault \in MigFaults :
      Bind(MigrateToKV(Cur, now, fault), LAMBDA r :
        /\ r.status = "failed"
        /\ r.st.puts = 0
        /\ r.st.kv = kv)

\* C24: whenever a migrateToKV has returned with the status FAILED, the error
\* list getStatus returns is not empty, whichever step failed.
C24_FailedHasErrors ==
  (mstatus = "failed" /\ mlast = "migrateToKV") => merrors # <<>>


(***************************************************************************)
(* Request throttling                                                      *)
(***************************************************************************)
\* C25: per request key at most one fetch is unsettled; a request made while a
\* fetch of its key is unsettled, or less than 1000 ms after the last one
\* began, is rejected with the throttle error and calls no fetch; once a
\* request has settled its key is no longer marked in flight.
C25_RequestThrottling ==
  /\ \A k \in RequestKeys : fetches[k].pending <= 1
  /\ (tcall.key # "none" /\ tcall.op = "request") =>
       /\ (tcall.busy \/ tcall.early) => tcall.outcome = "throttled"
       /\ tcall.outcome = "throttled" => ~tcall.fetched
  /\ (tcall.key # "none" /\ tcall.op = "settle") => tcall.key \notin activeRequests

\* C25 witness: a request of a key was accepted and has settled, and the next
\* request of that key, made less than 1000 ms after the first began, was
\* throttled.
C25_WitnessThrottledAfterSettle ==
  /\ tcall.key # "none"
  /\ tcall.op = "request"
  /\ tcall.outcome = "throttled"
  /\ ~tcall.busy
  /\ tcall.early
  /\ tcall.key \notin activeRequests


(***************************************************************************)
(* Writes against a failing or shared store                                *)
(***************************************************************************)
\* the successful writes of the type collection that can be issued in this
\* state while the store read of the collection rejects, each with the ids it
\* deletes
WritesWithFailedRead(type) ==
  LET f == {GetPoint(type)}
      all == IF type = "categories"
             THEN {[o |-> DMAddCategory(Cur, c, now, f), del |-> {}] : c \in CategoryInputs}
                  \cup {[o |-> DMUpdateCategory(Cur, id, u, now, f), del |-> {}] :
                          id \in UpdatedCategoryIds, u \in CategoryUpdates}
                  \cup {[o |-> DMDeleteCategory(Cur, id, now, f), del |-> {id}] :
                          id \in CategoryIds}
             ELSE {[o |-> DMAddSite(Cur, x, now, f), del |-> {}] :
                          x \in SiteInputs \cup FreshSites}
                  \cup {[o |-> DMUpdateSite(Cur, id, u, now, f), del |-> {}] :
                          id \in UpdatedSiteIds, u \in SiteUpdates}
                  \cup {[o |-> DMDeleteSite(Cur, id, now, f), del |-> {id}] : id \in SiteIds}
  IN {w \in all : w.o.res = "ok"}

\* C26: in KV mode a write whose own read of the collection failed with a store
\* error does not replace a non-empty stored collection by one derived from
\* the bundled dataset: every record the store held and the write did not
\* delete is still in the store after it.
C26_FallbackForReadsOnly ==
  InKVMode =>
    \A type \in Types :
      LET key == KVKeyOf(type) IN
      (/\ GetCollection(Cur, type, TRUE, now, {GetPoint(type)}).caught
       /\ IsSome(kv[key])
       /\ Len(Get(kv[key])) > 0) =>
        \A w \in WritesWithFailedRead(type) :
          (IdsOf(Get(kv[key])) \ w.del) \subseteq IdsOf(Persisted(w.o.st.kv, type))


\* what getCategories(false) / getSites(false) returns in the current state
Uncached(type) ==
  Bind(GetCollection(Cur, type, FALSE, now, {}), LAMBDA g : g.st.heap[g.val])

\* C27: in KV mode getCategories(false) / getSites(false) returns the collection
\* the remote store holds now, also when another process has changed the store
\* since this process last read or wrote the key.
C27_FalseFlagBypassesCaches ==
  InKVMode =>
    \A type \in Types :
      IsSome(kv[KVKeyOf(type)]) => Uncached(type) = Get(kv[KVKeyOf(type)])

(***************************************************************************)
(* Updates                                                                 *)
(***************************************************************************)
\* the partial records an update may carry, key fields included
CategoryPartials == {[name |-> "n2"], [id |-> "c2"]}
SitePartials == {[category |-> "c2"], [category |-> "c9"], [id |-> "s2"], [url |-> "u2"]}

\* the data-model invariants of a pair of collections
WellFormed(categories, sites) ==
  /\ UniqueIds(categories)
  /\ UniqueIds(sites)
  /\ UniqueUrls(sites)
  /\ \A i \in 1..Len(sites) : sites[i].category \in IdsOf(categories)

\* the store and this process's view agree and satisfy the data model
SettledStore ==
  /\ InKVMode
  /\ \A type \in Types : ViewOf(Cur, type) = Persisted(kv, type)
  /\ WellFormed(Persisted(kv, "categories"), Persisted(kv, "sites"))

\* what an update of record id of the type collection must leave behind
UpdatedAsSpecified(type, id, o) ==
  LET before == Persisted(kv, type)
      index == FindIndex(before, id)
      after == Persisted(o.st.kv, type)
  IN
  IF index = 0
  THEN /\ o.res = "validation"
       /\ o.st.kv = kv
       /\ ViewOf(o.st, type) = before
  ELSE o.res = "ok" =>
         /\ WellFormed(Persisted(o.st.kv, "categories"), Persisted(o.st.kv, "sites"))
         /\ Len(after) = Len(before)
         /\ "lastModified" \in DOMAIN after[index]

\* C28: from a store that satisfies the data model, updateCategory / updateSite
\* with any partial record (id, url or category included) leaves the stored
\* collections satisfying it and the updated record carrying a lastModified
\* stamp; an update of an id that is not there fails with a validation error
\* and changes nothing.
C28_UpdatePreservesInvariants ==
  SettledStore =>
    /\ \A id \in CategoryIds, u \in CategoryPartials :
         UpdatedAsSpecified("categories", id, DMUpdateCategory(Cur, id, u, now, {}))
    /\ \A id \in SiteIds, u \in SitePartials :
         UpdatedAsSpecified("sites", id, DMUpdateSite(Cur, id, u, now, {}))

(***************************************************************************)
(* Two processes writing the same store                                    *)
(***************************************************************************)
\* C29: whatever the interleaving of this process's addSite / deleteSite with
\* the other process's addSite, the stored sites collection is exactly the one
\* handed to the put that completed last, and its ids and urls are unique.
C29_LastWriteWins ==
  IsSome(sput) =>
    /\ kv[K_SITES] = sput
    /\ UniqueIds(Get(sput))
    /\ UniqueUrls(Get(sput))

\* both addSite calls succeeded, this process's put came first, and the store
\* holds the other process's bookmark only
C29_WitnessLostUpdate ==
  /\ own.op = "addSite"
  /\ own.res = "ok"
  /\ "s2" \in IdsOf(own.put)
  /\ other.pc = "done"
  /\ other.res = "ok"
  /\ sput = Some(other.put)
  /\ "s3" \in IdsOf(Get(kv[K_SITES]))
  /\ "s2" \notin IdsOf(Get(kv[K_SITES]))

\* C30: in KV mode deleteCategory(id) does not succeed while the stored sites
\* collection holds a bookmark of that category, also when another process
\* stored the bookmark after this process last cached the sites.
C30_DeleteGuardSeesStore ==
  InKVMode =>
    \A id \in CategoryIds :
      Len(InCategory(Persisted(kv, "sites"), id)) > 0 =>
        DMDeleteCategory(Cur, id, now, {}).res # "ok"

====
